---- MODULE Spec2Model ----
(***************************************************************************)
(* Verification model of the LangBot chatbot gateway.                      *)
(*                                                                         *)
(* Part I   WebChat debug adapter: the synchronous reply bridge            *)
(*          (pkg/platform/sources/webchat.py).                             *)
(* Part II  WebSocket debug channel: the connection pool                   *)
(*          (pkg/api/http/service/websocket_pool.py).                      *)
(* Part III WebSocket debug channel: the connection handler                *)
(*          (pkg/api/http/controller/groups/pipelines/websocket.py).       *)
(* Part IV  Unified webhook dispatcher                                     *)
(*          (pkg/api/http/controller/groups/webhooks.py).                  *)
(* Part V   RAG knowledge-base manager                                     *)
(*          (langbot/pkg/rag/knowledge/kbmgr.py,                           *)
(*           langbot/pkg/api/http/service/knowledge.py).                   *)
(* Part VI  File ingestion of a knowledge base (same files).               *)
(* Part VII Hybrid retrieval with rank fusion                               *)
(*          (langbot/pkg/rag/retrieval/retrieval.py).                       *)
(* Part VIII Retrieval providers                                            *)
(*          (langbot/pkg/rag/retrieval/providers).                          *)
(* Part IX  Vector database (langbot/pkg/vector, plugin/handler.py,         *)
(*          rag/service/runtime.py).                                        *)
(* Part X   Pipeline runtime and its concurrency semaphore.                 *)
(* Part XI  Pipeline stages: access control and rate limit.                 *)
(* Part XII QQ official converters                                          *)
(*          (langbot/pkg/platform/sources/qqofficial.py).                   *)
(* Part XIII Environment-variable overrides (pkg/config/impls/yaml.py).     *)
(* Part XIV QQ official callback validation (libs/qq_official_api/api.py). *)
(* Part XV  Binary storage of plugins (langbot/pkg/plugin/handler.py).      *)
(* Part XVI SeekDB collection names (langbot/pkg/vector/vdbs/seekdb.py).    *)
(***************************************************************************)
EXTENDS Integers, Sequences, FiniteSets, TLC

(***************************************************************************)
(* Bounds                                                                   *)
(***************************************************************************)
MaxMessages == 3        \* messages (user and bot) stored over a behaviour
MaxConns == 2           \* WebSocket connections opened over a behaviour
MaxTime == 2            \* seconds the clock advances
MaxBots == 2            \* bot uuids the webhook route is called with
MaxKBs == 2             \* knowledge bases created over a behaviour
MaxUploads == 2         \* blobs uploaded for ingestion over a behaviour
MaxMembers == 2         \* members of an uploaded ZIP archive
MaxFiles == 2           \* File rows inserted over a behaviour
MaxTopK == 2            \* largest top_k retrieve is called with
MaxProviders == 2       \* retrieval providers configured for a knowledge base
MaxBatches == 2         \* batches one add_embeddings call is split into
MaxQueries == 2         \* queries entering over a behaviour
ConcurrencyPipeline == 1 \* concurrency.pipeline: slots of the semaphore
MaxSpecs == 2           \* specs in an access-control list
MaxAttachments == 2     \* attachments of a quoted message
MaxWriters == 2         \* concurrent set_binary_storage calls
MaxSecretLen == 5       \* length of a short bot secret
MaxEnvVars == 2         \* variables in the environment

\* The chunk ids of the vector database.
ChunkIds == {"c1", "c2", "c3"}

VARIABLES
    \* ---- WebChatAdapter ----
    debug_messages,     \* [session_key -> Seq(message dict)]
    listeners,          \* class attribute: event classes with a registered listener
    resp_waiters,       \* class attribute: message_id -> future (named by its call)
    futures,            \* [call -> state of the asyncio.Future the call created]
    done_callbacks,     \* futures whose done-callback the event loop has yet to run
    calls,              \* [call -> frame of one send_debug_message invocation]
    replied,            \* [call -> reply_message invocations for the call's event]
    stored,             \* messages appended to the histories so far
    \* ---- WebSocketConnectionPool ----
    connections,        \* session_key -> (connection_id -> WebSocketConnection)
    sockets,            \* [connection_id -> state and close code of its websocket]
    now,                \* datetime.now(), in seconds
    accesses,           \* accesses to self.connections made by remove_connection
                        \* and cleanup_stale_connections, with the lock state
    reaped,             \* connections cleanup_stale_connections removed as stale
    last_broadcast,     \* outcome of the latest broadcast_to_session
    \* ---- websocket_handler ----
    handlers,           \* [connection_id -> frame of its websocket_handler]
    \* ---- webhook dispatcher ----
    bots,               \* platform_mgr's runtime bots, by uuid
    webhook,            \* the latest webhook request and what it was answered
    \* ---- RAG knowledge bases ----
    kb_rows,            \* uuids of the KnowledgeBase rows in the DB
    knowledge_bases,    \* RAGManager.knowledge_bases: uuids loaded in the runtime
    plugin_kbs,         \* uuids the RAG plugin holds after on_kb_create
    creates,            \* [uuid -> frame of the create_knowledge_base call]
    deletes,            \* [uuid -> frame of the delete_knowledge_base call]
    \* ---- file ingestion ----
    files,              \* [blob name -> its File row and its ingest task]
    blobs,              \* names of the blobs in object storage
    uploads,            \* [upload -> frame of the store_file call on it]
    epoch,              \* number of the process run (0, then 1 after a restart)
    \* ---- KnowledgeService file requests ----
    file_request,       \* the latest store_file / delete_file request and its outcome
    \* ---- Retriever ----
    retrieval,          \* frame of the retrieve call: its inputs and what it returns
    \* ---- retrieval providers ----
    providers,          \* [slot -> the provider constructed for it and its retrieve outcome]
    \* ---- vector database ----
    collection,         \* [stored file_id -> rows of the collection carrying it in their metadata]
    exists,             \* has_collection: the collection was created
    add_call,           \* frame of the add_embeddings call
    last_op,            \* the latest operation on the vector database and how it ended
    \* ---- pipeline runtime ----
    queries,            \* [query_id -> frame of the query's pipeline run]
    semaphore,          \* free slots of the pipeline concurrency semaphore
    \* ---- pipeline stages ----
    stage_call,         \* the latest stage invocation: its inputs and its StageProcessResult
    \* ---- QQ official converters ----
    conversion,         \* the latest event conversion: its input and the event it returned
    \* ---- environment-variable overrides ----
    override,           \* the latest load: environment, file configuration, result of one and of two applications
    \* ---- QQ official callback validation ----
    validation_call,    \* the latest handle_validation call: its inputs, the length of the seed, the result
    \* ---- binary storage ----
    binary_storage,     \* rows of the binary_storage table, by (owner_type, owner, key)
    writers,            \* the set_binary_storage calls in flight
    \* ---- SeekDB collections by name ----
    seekdb_collections, \* rows of each stored collection, by its sanitized name
    named_op            \* the latest operation on a logical collection name and the rows it touched

webchat_vars == <<debug_messages, listeners, resp_waiters, futures,
                  done_callbacks, calls, replied, stored>>

pool_vars == <<connections, sockets, now, accesses, reaped, last_broadcast>>

ws_vars == <<handlers>>

webhook_vars == <<bots, webhook>>

kb_vars == <<kb_rows, knowledge_bases, plugin_kbs, creates, deletes>>

file_vars == <<files, blobs, uploads, epoch>>

service_vars == <<file_request>>

retriever_vars == <<retrieval>>

provider_vars == <<providers>>

vector_vars == <<collection, exists, add_call, last_op>>

pipeline_vars == <<queries, semaphore>>

stage_vars == <<stage_call>>

converter_vars == <<conversion>>

override_vars == <<override>>

validation_vars == <<validation_call>>

storage_vars == <<binary_storage, writers>>

named_vars == <<seekdb_collections, named_op>>

vars == <<webchat_vars, pool_vars, ws_vars, webhook_vars, kb_vars, file_vars, service_vars,
          retriever_vars, provider_vars,
          vector_vars,
          pipeline_vars,
          stage_vars,
          converter_vars,
          override_vars,
          validation_vars,
          storage_vars,
          named_vars>>

(***************************************************************************)
(* Part I.  WebChatAdapter                                                  *)
(***************************************************************************)
Calls == 1..MaxMessages
SessionTypes == {"person", "group"}
EventClasses == {"FriendMessage", "GroupMessage"}

\* session_key = f'webchat{session_type}'
SessionKey(session_type) ==
    IF session_type = "person" THEN "webchatperson" ELSE "webchatgroup"

SessionKeys == {SessionKey(t) : t \in SessionTypes}

\* event class built by send_debug_message for a session type
EventClass(session_type) ==
    IF session_type = "person" THEN "FriendMessage" ELSE "GroupMessage"

\* event.sender.id: Friend(id='webchatperson') and GroupMember(id='webchatperson')
SenderId(session_type) == "webchatperson"

NoResult == [id |-> 0, type |-> "none", content |-> 0]

\* dispatched: the event of the call was handed to a listener (line 158)
IdleCall == [pc |-> "idle", session_type |-> "none",
             message_id |-> 0, dispatched |-> FALSE, result |-> NoResult]

NoFuture == [state |-> "none", result |-> NoResult]

InitWebChat ==
    /\ debug_messages = [k \in SessionKeys |-> << >>]
    /\ listeners = {}
    /\ resp_waiters = << >>
    /\ futures = [c \in Calls |-> NoFuture]
    /\ done_callbacks = {}
    /\ calls = [c \in Calls |-> IdleCall]
    /\ replied = [c \in Calls |-> 0]
    /\ stored = 0

\* dict.pop(key) / del dict[key] on a function
DictPop(d, key) == [k \in (DOMAIN d) \ {key} |-> d[k]]

\* dict[key] = value
DictSet(d, key, value) ==
    [k \in (DOMAIN d) \cup {key} |-> IF k = key THEN value ELSE d[k]]

\* register_listener: self.listeners[event_type] = func
RegisterListener(event_type) ==
    /\ event_type \notin listeners
    /\ listeners' = listeners \cup {event_type}
    /\ UNCHANGED <<debug_messages, resp_waiters, futures, done_callbacks,
                   calls, replied, stored>>

\* a waiter stored under the id of the next message
SetWaiterUnderNextId(waiters, message_id, c) == DictSet(waiters, message_id + 1, c)

\* lines 160-163: the waiter is created, stored under message_id and given
\* the done-callback; the call then awaits it
SetWaiter(waiters, message_id, c) == DictSet(waiters, message_id, c)

\* send_debug_message, from its entry to its first suspension point.  With a
\* listener registered for the event class the call suspends inside the
\* listener (line 158); without one it runs on to the await of its waiter.
SendDebugMessage(c, session_type) ==
    LET session_key == SessionKey(session_type)
        message_id == Len(debug_messages[session_key]) + 1
        user_message == [id |-> message_id, type |-> "user", content |-> c]
    IN  /\ calls[c].pc = "idle"
        /\ \A d \in Calls : d < c => calls[d].pc # "idle"
        /\ stored < MaxMessages
        /\ stored' = stored + 1
        /\ debug_messages' = [debug_messages EXCEPT
                                ![session_key] = Append(@, user_message)]
        /\ IF EventClass(session_type) \in listeners
           THEN /\ calls' = [calls EXCEPT ![c] =
                        [pc |-> "listener",
                         session_type |-> session_type,
                         message_id |-> message_id, dispatched |-> TRUE,
                         result |-> NoResult]]
                /\ UNCHANGED <<resp_waiters, futures>>
           ELSE /\ calls' = [calls EXCEPT ![c] =
                        [pc |-> "awaiting",
                         session_type |-> session_type,
                         message_id |-> message_id, dispatched |-> FALSE,
                         result |-> NoResult]]
                /\ resp_waiters' = SetWaiter(resp_waiters, message_id, c)
                /\ futures' = [futures EXCEPT ![c].state = "pending"]
        /\ UNCHANGED <<listeners, done_callbacks, replied>>

\* line 158 returns: the listener has finished; lines 160-163 register the
\* waiter and the call suspends on it
ListenerReturns(c) ==
    /\ calls[c].pc = "listener"
    /\ calls' = [calls EXCEPT ![c].pc = "awaiting"]
    /\ resp_waiters' = SetWaiter(resp_waiters, calls[c].message_id, c)
    /\ futures' = [futures EXCEPT ![c].state = "pending"]
    /\ UNCHANGED <<debug_messages, listeners, done_callbacks, replied, stored>>

\* line 158 raises: the listener's exception leaves send_debug_message
ListenerRaises(c) ==
    /\ calls[c].pc = "listener"
    /\ calls' = [calls EXCEPT ![c].pc = "raised"]
    /\ UNCHANGED <<debug_messages, listeners, resp_waiters, futures,
                   done_callbacks, replied, stored>>

\* send_message: the bot message appended to debug_messages[target_id]
BotMessage(history, c) == [id |-> Len(history) + 1, type |-> "bot", content |-> c]

\* reply_message for the event of call c (the pipeline, in the listener or in
\* a later task).  send_message stores the reply under the sender's id, then
\* the waiter registered under the event's message_id, if any, is resolved.
ReplyMessage(c) ==
    LET session_key == SenderId(calls[c].session_type)
        message_data == BotMessage(debug_messages[session_key], c)
        message_id == calls[c].message_id
    IN  /\ calls[c].dispatched
        /\ stored < MaxMessages
        /\ stored' = stored + 1
        /\ replied' = [replied EXCEPT ![c] = @ + 1]
        /\ debug_messages' = [debug_messages EXCEPT
                                ![session_key] = Append(@, message_data)]
        /\ IF message_id \in DOMAIN resp_waiters
           THEN LET w == resp_waiters[message_id]
                IN  IF futures[w].state = "pending"
                    THEN \* set_result: the future is done, its callbacks are
                         \* handed to the loop (call_soon)
                         /\ futures' = [futures EXCEPT ![w] =
                                [state |-> "done", result |-> message_data]]
                         /\ done_callbacks' = done_callbacks \cup {w}
                    ELSE \* set_result on a done future: InvalidStateError
                         UNCHANGED <<futures, done_callbacks>>
           ELSE UNCHANGED <<futures, done_callbacks>>
        /\ UNCHANGED <<listeners, resp_waiters, calls>>

\* a done-callback that forgets to remove the waiter
DoneCallbackKeepsEntry(waiters, message_id) == waiters

\* the done-callback of line 162: self.resp_waiters.pop(message_id)
\* (a KeyError for an absent key is swallowed by the event loop)
DoneCallback(waiters, message_id) ==
    IF message_id \in DOMAIN waiters THEN DictPop(waiters, message_id) ELSE waiters

\* set_result handed the future's callbacks to the loop in the order they
\* were added: the pop of line 162, then the wake-up of the task awaiting at
\* line 163, which returns the future's result.  Nothing runs between them.
RunFutureCallbacks(c) ==
    /\ c \in done_callbacks
    /\ done_callbacks' = done_callbacks \ {c}
    /\ resp_waiters' = DoneCallback(resp_waiters, calls[c].message_id)
    /\ calls' = [calls EXCEPT ![c].pc = "done", ![c].result = futures[c].result]
    /\ UNCHANGED <<debug_messages, listeners, futures, replied, stored>>

\* reset_debug_session: self.debug_messages[session_key] = []
ResetDebugSession(session_type) ==
    /\ debug_messages[SessionKey(session_type)] # << >>
    /\ debug_messages' = [debug_messages EXCEPT ![SessionKey(session_type)] = << >>]
    /\ UNCHANGED <<listeners, resp_waiters, futures, done_callbacks,
                   calls, replied, stored>>

NextWebChat ==
    \/ \E t \in EventClasses : RegisterListener(t)
    \/ \E c \in Calls, t \in SessionTypes : SendDebugMessage(c, t)
    \/ \E c \in Calls : ListenerReturns(c)
    \/ \E c \in Calls : ListenerRaises(c)
    \/ \E c \in Calls : ReplyMessage(c)
    \/ \E c \in Calls : RunFutureCallbacks(c)
    \/ \E t \in SessionTypes : ResetDebugSession(t)

(***************************************************************************)
(* Part II.  WebSocketConnectionPool                                        *)
(***************************************************************************)
ConnIds == 1..MaxConns
\* pipeline_uuid is the <pipeline_uuid> segment of the route: any text, a
\* colon included.
Pipelines == {"p1", "p1:person"}

\* a key made of the pipeline alone
PoolKeyIgnoringType(pipeline_uuid, session_type) == pipeline_uuid \o ":"

\* session_key = f"{pipeline_uuid}:{session_type}"
PoolKey(pipeline_uuid, session_type) == pipeline_uuid \o ":" \o session_type

PoolKeys == {PoolKey(p, t) : p \in Pipelines, t \in SessionTypes}

NoSocket == [state |-> "none", code |-> 0]

NoBroadcast == [session |-> "none", pipeline_uuid |-> "none", session_type |-> "none",
                results |-> << >>,
                attempted |-> {}, failed_count |-> 0, raised |-> FALSE]

InitPool ==
    /\ connections = << >>
    /\ sockets = [c \in ConnIds |-> NoSocket]
    /\ now = 0
    /\ accesses = {}
    /\ reaped = {}
    /\ last_broadcast = NoBroadcast

\* get_connection: self.connections.get(session_key, {}).get(connection_id)
GetConnection(conns, connection_id, session_key) ==
    IF session_key \in DOMAIN conns /\ connection_id \in DOMAIN conns[session_key]
    THEN {conns[session_key][connection_id]}
    ELSE {}

\* add_connection: the session's dict is created on demand
AddConnectionTo(conns, conn) ==
    LET session_key == PoolKey(conn.pipeline_uuid, conn.session_type)
        session == IF session_key \in DOMAIN conns THEN conns[session_key] ELSE << >>
    IN  DictSet(conns, session_key, DictSet(session, conn.connection_id, conn))

\* a WebSocketConnection is constructed with a fresh connection_id and
\* last_ping = datetime.now(), and handed to add_connection
AddConnection(c, pipeline_uuid, session_type) ==
    /\ sockets[c].state = "none"
    /\ \A d \in ConnIds : d < c => sockets[d].state # "none"
    /\ sockets' = [sockets EXCEPT ![c].state = "open"]
    /\ connections' = AddConnectionTo(connections,
            [connection_id |-> c, pipeline_uuid |-> pipeline_uuid,
             session_type |-> session_type, last_ping |-> now])
    /\ UNCHANGED <<now, accesses, reaped, last_broadcast>>

\* a removal that leaves the emptied session dict in the pool
RemoveConnectionKeepingSession(conns, connection_id, session_key) ==
    IF session_key \in DOMAIN conns
    THEN [conns EXCEPT ![session_key] = DictPop(conns[session_key], connection_id)]
    ELSE conns

\* remove_connection, the body under `async with self._lock`
RemoveConnectionFrom(conns, connection_id, session_key) ==
    IF session_key \in DOMAIN conns
    THEN LET session == DictPop(conns[session_key], connection_id)
         IN  IF DOMAIN session = {}
             THEN DictPop(conns, session_key)
             ELSE [conns EXCEPT ![session_key] = session]
    ELSE conns

\* remove_connection running its body without taking the lock
RemoveConnectionUnlocked ==
    {[op |-> "remove_connection", access |-> "read", locked |-> FALSE],
     [op |-> "remove_connection", access |-> "write", locked |-> FALSE]}

\* lines 93-99: the membership test and the pops happen inside the lock
RemoveConnectionAccesses ==
    {[op |-> "remove_connection", access |-> "read", locked |-> TRUE],
     [op |-> "remove_connection", access |-> "write", locked |-> TRUE]}

\* lines 191-195 iterate self.connections and line 204 calls get_connection,
\* both outside the lock; line 200 goes through remove_connection
CleanupAccesses(stale) ==
    {[op |-> "cleanup_stale_connections", access |-> "read", locked |-> FALSE]}
    \cup (IF stale = {} THEN {}
          ELSE {[op |-> "cleanup_stale_connections", access |-> a.access,
                 locked |-> a.locked] : a \in RemoveConnectionAccesses})

RemoveConnection(c, session_key) ==
    /\ connections' = RemoveConnectionFrom(connections, c, session_key)
    /\ accesses' = accesses \cup RemoveConnectionAccesses
    /\ UNCHANGED <<sockets, now, reaped, last_broadcast>>

\* handle_client_event, 'ping': connection.last_ping = datetime.now()
Ping(c) ==
    /\ \E session_key \in DOMAIN connections :
          /\ c \in DOMAIN connections[session_key]
          /\ connections[session_key][c].last_ping # now
          /\ connections' = [connections EXCEPT ![session_key][c].last_ping = now]
    /\ UNCHANGED <<sockets, now, accesses, reaped, last_broadcast>>

Tick ==
    /\ now < MaxTime
    /\ now' = now + 1
    /\ UNCHANGED <<connections, sockets, accesses, reaped, last_broadcast>>

\* lines 193-194: elapsed > timeout_seconds
IsStale(conn, timeout_seconds) == now - conn.last_ping > timeout_seconds

\* lines 191-195: the (conn_id, session_key) pairs found stale
StaleConnections(conns, timeout_seconds) ==
    {pair \in ConnIds \X PoolKeys :
        /\ pair[2] \in DOMAIN conns
        /\ pair[1] \in DOMAIN conns[pair[2]]
        /\ IsStale(conns[pair[2]][pair[1]], timeout_seconds)}

\* lines 198-208, the removal loop: each stale pair is removed, and the
\* socket is closed with code 1000 when get_connection still finds the
\* connection after its removal
RECURSIVE CleanupLoop(_, _, _)
CleanupLoop(conns, socks, stale) ==
    IF stale = {} THEN [connections |-> conns, sockets |-> socks]
    ELSE LET pair == CHOOSE q \in stale : TRUE
             after == RemoveConnectionFrom(conns, pair[1], pair[2])
             conn == GetConnection(after, pair[1], pair[2])
             closed == IF conn # {}
                       THEN [socks EXCEPT ![pair[1]] = [state |-> "closed", code |-> 1000]]
                       ELSE socks
         IN  CleanupLoop(after, closed, stale \ {pair})

CleanupStaleConnections(timeout_seconds) ==
    LET stale == StaleConnections(connections, timeout_seconds)
        result == CleanupLoop(connections, sockets, stale)
    IN  /\ connections' = result.connections
        /\ sockets' = result.sockets
        /\ reaped' = reaped \cup {pair[1] : pair \in stale}
        /\ accesses' = accesses \cup CleanupAccesses(stale)
        /\ UNCHANGED <<now, last_broadcast>>

\* get_connections_by_session, as the ids of the connections of the session
ConnectionsBySession(conns, pipeline_uuid, session_type) ==
    LET session_key == PoolKey(pipeline_uuid, session_type)
    IN  IF session_key \in DOMAIN conns THEN DOMAIN conns[session_key] ELSE {}

SendOutcomes == {"ok", "error", "cancelled"}

\* a fan-out that stops at the first failed send and lets it propagate
GatherAborting(targets, outcome) ==
    LET failed == {c \in targets : outcome[c] # "ok"}
        first == IF failed = {} THEN 0 ELSE CHOOSE c \in failed : \A d \in failed : c <= d
    IN  [attempted |-> IF failed = {} THEN targets ELSE {c \in targets : c <= first},
         failed_count |-> 0,
         raised |-> failed # {}]

\* lines 153-156: asyncio.gather(..., return_exceptions=True) starts every
\* send and returns failures and cancellations as results; failed_count
\* counts the results that are instances of Exception
Gather(targets, outcome) ==
    [attempted |-> targets,
     failed_count |-> Cardinality({c \in targets : outcome[c] = "error"}),
     raised |-> FALSE]

BroadcastToSession(pipeline_uuid, session_type, outcome) ==
    LET targets == ConnectionsBySession(connections, pipeline_uuid, session_type)
        gathered == Gather(targets, outcome)
    IN  /\ last_broadcast' =
            IF targets = {}
            THEN [NoBroadcast EXCEPT !.session = PoolKey(pipeline_uuid, session_type),
                                     !.pipeline_uuid = pipeline_uuid,
                                     !.session_type = session_type]
            ELSE [session |-> PoolKey(pipeline_uuid, session_type),
                  pipeline_uuid |-> pipeline_uuid,
                  session_type |-> session_type,
                  results |-> [c \in targets |-> outcome[c]],
                  attempted |-> gathered.attempted,
                  failed_count |-> gathered.failed_count,
                  raised |-> gathered.raised]
        /\ UNCHANGED <<connections, sockets, now, accesses, reaped>>

NextPool ==
    \/ \E c \in ConnIds, p \in Pipelines, t \in SessionTypes : AddConnection(c, p, t)
    \/ \E c \in ConnIds, k \in PoolKeys : RemoveConnection(c, k)
    \/ \E c \in ConnIds : Ping(c)
    \/ Tick
    \/ \E timeout_seconds \in 0..MaxTime : CleanupStaleConnections(timeout_seconds)

NextBroadcast ==
    \/ \E c \in ConnIds, p \in Pipelines, t \in SessionTypes : AddConnection(c, p, t)
    \/ \E c \in ConnIds, k \in PoolKeys : RemoveConnection(c, k)
    \/ \E p \in Pipelines, t \in SessionTypes :
         \E outcome \in [ConnectionsBySession(connections, p, t) -> SendOutcomes] :
            BroadcastToSession(p, t, outcome)

(***************************************************************************)
(* Part III.  websocket_handler                                             *)
(***************************************************************************)
\* The first frame a client sends.  json / data tell whether the frame and
\* its 'data' member are JSON objects; token is what the user service makes
\* of the token: it returns a user, returns None, raises, or none was sent.
FirstMessages ==
    {[json |-> "other", type |-> "other", data |-> "other",
      session_type |-> "other", token |-> "missing"]}
    \cup {[json |-> "object", type |-> "other", data |-> "object",
           session_type |-> "person", token |-> "valid"]}
    \cup {[json |-> "object", type |-> "connect", data |-> "other",
           session_type |-> "other", token |-> "missing"]}
    \cup {[json |-> "object", type |-> "connect", data |-> "object",
           session_type |-> t, token |-> k] :
              t \in {"person", "group", "other"},
              k \in {"valid", "rejected", "failing", "missing"}}

NoMessage == [json |-> "none", type |-> "none", data |-> "none",
              session_type |-> "none", token |-> "none"]

IdleHandler == [pc |-> "idle", pipeline_uuid |-> "none", first |-> NoMessage]

InitWs == handlers = [c \in ConnIds |-> IdleHandler]

\* lines 143-185: the checks on the first frame, giving the error_code of
\* the error frame sent before close(1008), "exception" when the frame makes
\* `.get` raise (caught at line 222), or "ok"
Handshake(m) ==
    IF m.json # "object" THEN "exception"
    ELSE IF m.type # "connect" THEN "INVALID_HANDSHAKE"
    ELSE IF m.data # "object" THEN "exception"
    ELSE IF m.session_type \notin {"person", "group"} THEN "INVALID_SESSION_TYPE"
    ELSE IF m.token = "missing" THEN "MISSING_TOKEN"
    ELSE IF m.token = "rejected" THEN "UNAUTHORIZED"
    ELSE IF m.token = "failing" THEN "AUTH_ERROR"
    ELSE "ok"

\* websocket_handler from the accepted socket to the message loop or to its
\* return: the first frame is received and checked, and the connection is
\* pooled (lines 188-199) or refused
ReceiveFirstMessage(c, pipeline_uuid, m) ==
    LET verdict == Handshake(m)
    IN  /\ handlers[c].pc = "idle"
        /\ sockets[c].state = "none"
        /\ \A d \in ConnIds : d < c => sockets[d].state # "none"
        /\ IF verdict = "ok"
           THEN /\ handlers' = [handlers EXCEPT ![c] =
                        [pc |-> "connected", pipeline_uuid |-> pipeline_uuid, first |-> m]]
                /\ sockets' = [sockets EXCEPT ![c].state = "open"]
                /\ connections' = AddConnectionTo(connections,
                        [connection_id |-> c, pipeline_uuid |-> pipeline_uuid,
                         session_type |-> m.session_type, last_ping |-> now])
           ELSE /\ handlers' = [handlers EXCEPT ![c] =
                        [pc |-> "exited", pipeline_uuid |-> pipeline_uuid, first |-> m]]
                /\ sockets' = [sockets EXCEPT ![c] =
                        IF verdict = "exception"
                        THEN [state |-> "open", code |-> 0]
                        ELSE [state |-> "closed", code |-> 1008]]
                /\ UNCHANGED connections
        /\ UNCHANGED <<now, accesses, reaped, last_broadcast>>

\* line 143 raises: the client is gone before it sent a frame
ReceiveFails(c, pipeline_uuid) ==
    /\ handlers[c].pc = "idle"
    /\ sockets[c].state = "none"
    /\ \A d \in ConnIds : d < c => sockets[d].state # "none"
    /\ handlers' = [handlers EXCEPT ![c] =
            [pc |-> "exited", pipeline_uuid |-> pipeline_uuid, first |-> NoMessage]]
    /\ sockets' = [sockets EXCEPT ![c].state = "open"]
    /\ UNCHANGED <<connections, now, accesses, reaped, last_broadcast>>

\* the message loop handles a 'ping' event
HandlerPing(c) ==
    /\ handlers[c].pc = "connected"
    /\ Ping(c)
    /\ UNCHANGED handlers

\* the message loop ends (disconnect, cancellation, receive or send error)
\* and the finally block runs remove_connection(connection_id, session_key)
HandlerExit(c) ==
    /\ handlers[c].pc = "connected"
    /\ handlers' = [handlers EXCEPT ![c].pc = "exited"]
    /\ RemoveConnection(c, PoolKey(handlers[c].pipeline_uuid, handlers[c].first.session_type))

NextWs ==
    \/ \E c \in ConnIds, p \in Pipelines, m \in FirstMessages : ReceiveFirstMessage(c, p, m)
    \/ \E c \in ConnIds, p \in Pipelines : ReceiveFails(c, p)
    \/ \E c \in ConnIds : HandlerPing(c)
    \/ \E c \in ConnIds : HandlerExit(c)
    \/ Tick /\ UNCHANGED handlers
    \/ \E timeout_seconds \in 0..MaxTime :
            CleanupStaleConnections(timeout_seconds) /\ UNCHANGED handlers

\* Connect frames carrying an accepted token: their session_type decides
\* whether the connection is pooled.
ConnectFrames ==
    {m \in FirstMessages :
        m.json = "object" /\ m.type = "connect" /\ m.data = "object" /\ m.token = "valid"}

\* The handler's life without the heartbeat: connections are pooled, reaped
\* by the cleanup and removed by the handler's finally block.
NextWsExit ==
    \/ \E c \in ConnIds, p \in Pipelines, m \in ConnectFrames : ReceiveFirstMessage(c, p, m)
    \/ \E c \in ConnIds, p \in Pipelines : ReceiveFails(c, p)
    \/ \E c \in ConnIds : HandlerExit(c)
    \/ Tick /\ UNCHANGED handlers
    \/ \E timeout_seconds \in 0..MaxTime :
            CleanupStaleConnections(timeout_seconds) /\ UNCHANGED handlers

(***************************************************************************)
(* Part IV.  WebhookRouterGroup._dispatch_webhook                           *)
(***************************************************************************)
BotUuids == 1..MaxBots
Paths == {"", "callback"}
Errors == {"lookup failed", "handler failed"}

\* enable: runtime_bot.enable; unified: the adapter has handle_unified_webhook
NoBot == [present |-> FALSE, enable |-> FALSE, unified |-> FALSE]

NoWebhook == [bot_uuid |-> 0, path |-> "", bot |-> NoBot, lookup |-> "none",
              handler |-> "none", status |-> 0, body |-> "none", escaped |-> FALSE]

InitWebhook ==
    /\ bots = [u \in BotUuids |-> NoBot]
    /\ webhook = NoWebhook

\* the platform manager loads, reconfigures or removes a runtime bot
SetBot(u, bot) ==
    /\ bots[u] # bot
    /\ bots' = [bots EXCEPT ![u] = bot]
    /\ UNCHANGED webhook

BotStates ==
    {NoBot} \cup {[present |-> TRUE, enable |-> e, unified |-> h] : e, h \in BOOLEAN}

\* what handle_unified_webhook does: returns a response, or raises
HandlerOutcomes == {"ok", "challenge"} \cup Errors

\* a dispatcher that tests the adapter before the enable flag
DispatchAdapterFirst(bot, lookup, handler) ==
    IF lookup \in Errors THEN [status |-> 500, body |-> lookup, handler |-> "none", escaped |-> FALSE]
    ELSE IF ~bot.present THEN [status |-> 404, body |-> "Bot not found", handler |-> "none", escaped |-> FALSE]
    ELSE IF ~bot.unified
         THEN [status |-> 501, body |-> "Adapter does not support unified webhook",
               handler |-> "none", escaped |-> FALSE]
    ELSE IF ~bot.enable THEN [status |-> 403, body |-> "Bot is disabled", handler |-> "none", escaped |-> FALSE]
    ELSE IF handler \in Errors THEN [status |-> 500, body |-> handler, handler |-> handler, escaped |-> FALSE]
    ELSE [status |-> 200, body |-> handler, handler |-> handler, escaped |-> FALSE]

\* a dispatcher without the except clause
DispatchUncaught(bot, lookup, handler) ==
    IF lookup \in Errors THEN [status |-> 0, body |-> "none", handler |-> "none", escaped |-> TRUE]
    ELSE IF ~bot.present THEN [status |-> 404, body |-> "Bot not found", handler |-> "none", escaped |-> FALSE]
    ELSE IF ~bot.enable THEN [status |-> 403, body |-> "Bot is disabled", handler |-> "none", escaped |-> FALSE]
    ELSE IF ~bot.unified
         THEN [status |-> 501, body |-> "Adapter does not support unified webhook",
               handler |-> "none", escaped |-> FALSE]
    ELSE IF handler \in Errors THEN [status |-> 0, body |-> "none", handler |-> handler, escaped |-> TRUE]
    ELSE [status |-> 200, body |-> handler, handler |-> handler, escaped |-> FALSE]

\* lines 44-69.  lookup is "ok" or the error get_bot_by_uuid raises; handler
\* is what the adapter's handle_unified_webhook does if it is reached.  The
\* adapter's response is returned as it is (here: status 200 and its body).
Dispatch(bot, lookup, handler) ==
    IF lookup \in Errors THEN [status |-> 500, body |-> lookup, handler |-> "none", escaped |-> FALSE]
    ELSE IF ~bot.present THEN [status |-> 404, body |-> "Bot not found", handler |-> "none", escaped |-> FALSE]
    ELSE IF ~bot.enable THEN [status |-> 403, body |-> "Bot is disabled", handler |-> "none", escaped |-> FALSE]
    ELSE IF ~bot.unified
         THEN [status |-> 501, body |-> "Adapter does not support unified webhook",
               handler |-> "none", escaped |-> FALSE]
    ELSE IF handler \in Errors THEN [status |-> 500, body |-> handler, handler |-> handler, escaped |-> FALSE]
    ELSE [status |-> 200, body |-> handler, handler |-> handler, escaped |-> FALSE]

DispatchWebhook(bot_uuid, path, lookup, handler) ==
    LET answer == Dispatch(bots[bot_uuid], lookup, handler)
    IN  /\ webhook' = [bot_uuid |-> bot_uuid, path |-> path, bot |-> bots[bot_uuid],
                       lookup |-> lookup, handler |-> answer.handler,
                       status |-> answer.status, body |-> answer.body,
                       escaped |-> answer.escaped]
        /\ UNCHANGED bots

NextWebhook ==
    \/ \E u \in BotUuids, bot \in BotStates : SetBot(u, bot)
    \/ \E u \in BotUuids, path \in Paths, lookup \in {"ok", "lookup failed"},
          handler \in HandlerOutcomes \ {"lookup failed"} :
            DispatchWebhook(u, path, lookup, handler)

(***************************************************************************)
(* Part V.  RAGManager and KnowledgeService                                 *)
(***************************************************************************)
KbUuids == 1..MaxKBs

\* rag_engine_plugin_id: empty, or the id of a RAG engine plugin
PluginIds == {"", "engine"}

\* list_rag_engines at lines 444-453: the plugin system is disabled, the
\* plugin is listed, it is not listed (ValueError), or the listing raised
Validations == {"disabled", "listed", "unlisted", "list_error"}

IdleCreate == [pc |-> "idle", plugin_id |-> "", failed_at |-> "none"]
\* plugin_called: rag_on_kb_delete was called, and the row was still in the
\* DB at that moment (row_at_call); plugin_failed: the call raised
IdleDelete == [pc |-> "idle", plugin_called |-> FALSE, row_at_call |-> FALSE,
               plugin_failed |-> FALSE]

InitKb ==
    /\ kb_rows = {}
    /\ knowledge_bases = {}
    /\ plugin_kbs = {}
    /\ creates = [u \in KbUuids |-> IdleCreate]
    /\ deletes = [u \in KbUuids |-> IdleDelete]

\* create_knowledge_base, lines 444-473: the plugin is validated, a fresh
\* uuid is drawn and the row is inserted
CreatePersist(u, plugin_id, validation) ==
    /\ creates[u].pc = "idle"
    /\ \A v \in KbUuids : v < u => creates[v].pc # "idle"
    /\ IF validation = "unlisted"
       THEN /\ creates' = [creates EXCEPT ![u] =
                    [pc |-> "raised", plugin_id |-> plugin_id, failed_at |-> "validate"]]
            /\ UNCHANGED kb_rows
       ELSE /\ creates' = [creates EXCEPT ![u] =
                    [pc |-> "persisted", plugin_id |-> plugin_id, failed_at |-> "none"]]
            /\ kb_rows' = kb_rows \cup {u}
    /\ UNCHANGED <<knowledge_bases, plugin_kbs, deletes>>

\* line 476, load_knowledge_base: the runtime entry is stored under the uuid
CreateLoad(u) ==
    /\ creates[u].pc = "persisted"
    /\ creates' = [creates EXCEPT ![u].pc = "loaded"]
    /\ knowledge_bases' = knowledge_bases \cup {u}
    /\ UNCHANGED <<kb_rows, plugin_kbs, deletes>>

\* a rollback that forgets the runtime entry
RollbackRuntimeKept(runtime, u) == runtime

\* line 482: self.knowledge_bases.pop(kb_uuid, None)
RollbackRuntime(runtime, u) == runtime \ {u}

\* lines 479-486 with _on_kb_create (lines 223-237): the plugin is notified
\* unless the plugin id is empty; when the call raises, the runtime entry is
\* popped and the create goes on to delete the row
CreateNotify(u, plugin_ok) ==
    /\ creates[u].pc = "loaded"
    /\ IF creates[u].plugin_id = ""
       THEN /\ creates' = [creates EXCEPT ![u].pc = "done"]
            /\ UNCHANGED <<knowledge_bases, plugin_kbs>>
       ELSE IF plugin_ok
       THEN /\ creates' = [creates EXCEPT ![u].pc = "done"]
            /\ plugin_kbs' = plugin_kbs \cup {u}
            /\ UNCHANGED knowledge_bases
       ELSE /\ creates' = [creates EXCEPT ![u].pc = "rollback", ![u].failed_at = "on_kb_create"]
            /\ knowledge_bases' = RollbackRuntime(knowledge_bases, u)
            /\ UNCHANGED plugin_kbs
    /\ UNCHANGED <<kb_rows, deletes>>

\* lines 483-486: the row is deleted and the plugin's exception re-raised
CreateRollback(u) ==
    /\ creates[u].pc = "rollback"
    /\ creates' = [creates EXCEPT ![u].pc = "raised"]
    /\ kb_rows' = kb_rows \ {u}
    /\ UNCHANGED <<knowledge_bases, plugin_kbs, deletes>>

\* an _on_kb_delete that lets the plugin's exception through
OnKbDeleteRaising(plugin_ok) == IF plugin_ok THEN "returned" ELSE "raised"

\* _on_kb_delete, lines 245-251: an exception of rag_on_kb_delete is logged
\* and swallowed, so the call returns either way
OnKbDelete(plugin_ok) == "returned"

\* a DB delete that leaves the row
DeleteKbRowKept(rows, u) == rows

\* knowledge.py lines 200-202: delete(KnowledgeBase).where(uuid == kb_uuid)
DeleteKbRow(rows, u) == rows \ {u}

\* KnowledgeService.delete_knowledge_base, line 198, with
\* RAGManager.delete_knowledge_base and dispose: the runtime entry is popped
\* and, if there was one, the plugin is told (a failure is only logged)
DeleteRuntime(u, plugin_ok) ==
    /\ deletes[u].pc = "idle"
    /\ creates[u].pc = "done"
    /\ knowledge_bases' = knowledge_bases \ {u}
    /\ IF u \in knowledge_bases /\ creates[u].plugin_id # ""
       THEN /\ plugin_kbs' = IF plugin_ok THEN plugin_kbs \ {u} ELSE plugin_kbs
            /\ deletes' = [deletes EXCEPT ![u] =
                    [pc |-> IF OnKbDelete(plugin_ok) = "returned" THEN "notified" ELSE "raised",
                     plugin_called |-> TRUE, row_at_call |-> u \in kb_rows,
                     plugin_failed |-> ~plugin_ok]]
       ELSE /\ deletes' = [deletes EXCEPT ![u].pc = "notified"]
            /\ UNCHANGED plugin_kbs
    /\ UNCHANGED <<kb_rows, creates>>

\* KnowledgeService.delete_knowledge_base, lines 200-202: the row is deleted
DeleteRow(u) ==
    /\ deletes[u].pc = "notified"
    /\ deletes' = [deletes EXCEPT ![u].pc = "done"]
    /\ kb_rows' = DeleteKbRow(kb_rows, u)
    /\ UNCHANGED <<knowledge_bases, plugin_kbs, creates>>

NextKb ==
    \/ \E u \in KbUuids, plugin_id \in PluginIds, validation \in Validations :
            CreatePersist(u, plugin_id, validation)
    \/ \E u \in KbUuids : CreateLoad(u)
    \/ \E u \in KbUuids, plugin_ok \in BOOLEAN : CreateNotify(u, plugin_ok)
    \/ \E u \in KbUuids : CreateRollback(u)
    \/ \E u \in KbUuids, plugin_ok \in BOOLEAN : DeleteRuntime(u, plugin_ok)
    \/ \E u \in KbUuids : DeleteRow(u)

NoFileRequest == [op |-> "none", kb |-> "none", doc_ingestion |-> FALSE,
                  outcome |-> "none"]

\* get_knowledge_base_by_uuid: the class of the object the runtime map holds
\* for the uuid (load_knowledge_base stores RuntimeKnowledgeBase only), or
\* "none" for None
GetKnowledgeBaseByUuid(u) ==
    IF u \in knowledge_bases THEN "RuntimeKnowledgeBase" ELSE "none"

\* runtime_kb.get_type(): RuntimeKnowledgeBase and KnowledgeBaseInterface
\* define no get_type, ExternalKnowledgeBase returns 'external'
GetType(kb) == IF kb = "ExternalKnowledgeBase" THEN "external" ELSE "AttributeError"

\* KnowledgeService.store_file / delete_file, the checks before the call of
\* the runtime knowledge base (lines 136-141, 181-186).  The capabilities the
\* KB's plugin advertises are not read.
ServiceFileCheck(kb, doc_ingestion) ==
    IF kb = "none" THEN "Knowledge base not found"
    ELSE IF GetType(kb) = "AttributeError" THEN "AttributeError"
    ELSE IF GetType(kb) # "internal" THEN "Only internal knowledge bases"
    ELSE "accepted"

\* a store_file / delete_file request for the knowledge base u, whose plugin
\* does or does not advertise doc_ingestion
ServiceFileRequest(op, u, doc_ingestion) ==
    LET kb == GetKnowledgeBaseByUuid(u)
    IN  /\ file_request' = [op |-> op, kb |-> kb, doc_ingestion |-> doc_ingestion,
                            outcome |-> ServiceFileCheck(kb, doc_ingestion)]
        /\ file_request' # file_request
        /\ UNCHANGED kb_vars

InitService == file_request = NoFileRequest

NextKbService ==
    \/ NextKb /\ UNCHANGED service_vars
    \/ \E op \in {"store_file", "delete_file"}, u \in KbUuids, doc_ingestion \in BOOLEAN :
            ServiceFileRequest(op, u, doc_ingestion)


(***************************************************************************)
(* Part VI.  File ingestion: RuntimeKnowledgeBase.store_file and its task   *)
(***************************************************************************)
Uploads == 1..MaxUploads

\* <<u, 0>> is the blob of upload u; <<u, k>> is the k-th blob extracted from
\* the archive u.  A File row is keyed by the blob it was inserted for
\* (file_name), its uuid being fresh.
BlobNames == Uploads \X (0..MaxMembers)

\* a member of an archive: a file with a supported extension, one without,
\* Apple metadata (__MACOSX), or a supported one whose extraction raises
MemberKinds == {"supported", "unsupported", "macosx", "unreadable"}

ZipContents == UNION {[1..n -> MemberKinds] : n \in 0..MaxMembers}

\* status "none": there is no row.  task: the position of _store_file_task
NoFile == [status |-> "none", epoch |-> 0, task |-> "none"]

\* supported: the archive held a member with a supported extension
IdleUpload == [pc |-> "idle", kind |-> "none", supported |-> FALSE, error |-> "none"]

InitFiles ==
    /\ files = [b \in BlobNames |-> NoFile]
    /\ blobs = {}
    /\ uploads = [u \in Uploads |-> IdleUpload]
    /\ epoch = 0

\* File rows inserted so far
Inserted == Cardinality({b \in BlobNames : files[b].task # "none"})

\* a client uploads a plain document or a ZIP archive to object storage
Upload(u, kind) ==
    /\ uploads[u].pc = "idle"
    /\ \A v \in Uploads : v < u => uploads[v].pc # "idle"
    /\ uploads' = [uploads EXCEPT ![u].pc = "uploaded", ![u].kind = kind]
    /\ blobs' = blobs \cup {<<u, 0>>}
    /\ UNCHANGED <<files, epoch>>

\* lines 96-119: the row is inserted with status pending and the ingest task
\* is created
InsertFile(fs, b) ==
    [fs EXCEPT ![b] = [status |-> "pending", epoch |-> epoch, task |-> "created"]]

\* a _store_zip_file that returns '' when it stored nothing
StoreZipFileSilent(fs, bl, u, members) ==
    LET extracted == 1..Cardinality({m \in DOMAIN members : members[m] = "supported"})
    IN  [files |-> [b \in BlobNames |->
                        IF b[1] = u /\ b[2] \in extracted THEN InsertFile(fs, b)[b] ELSE fs[b]],
         blobs |-> (bl \cup {<<u, m>> : m \in extracted}) \ {<<u, 0>>},
         error |-> "none"]

\* _store_zip_file: every supported member is saved under a fresh id and
\* handed to store_file; members that are unsupported, Apple metadata or
\* fail to extract are skipped.  With nothing extracted it raises (line 171);
\* otherwise it deletes the archive's blob (line 174).
StoreZipFile(fs, bl, u, members) ==
    LET extracted == 1..Cardinality({m \in DOMAIN members : members[m] = "supported"})
    IN  [files |-> [b \in BlobNames |->
                        IF b[1] = u /\ b[2] \in extracted THEN InsertFile(fs, b)[b] ELSE fs[b]],
         blobs |-> IF extracted = {} THEN bl
                   ELSE (bl \cup {<<u, m>> : m \in extracted}) \ {<<u, 0>>},
         error |-> IF extracted = {} THEN "No supported files found in ZIP archive"
                   ELSE "none"]

\* RuntimeKnowledgeBase.store_file on the blob of upload u; members is what
\* the archive holds when the blob is a ZIP
StoreFile(u, members) ==
    /\ uploads[u].pc \in {"idle", "uploaded"}
    /\ \A v \in Uploads : v < u => uploads[v].pc # "idle"
    /\ IF <<u, 0>> \notin blobs
       THEN /\ members = << >>
            /\ uploads' = [uploads EXCEPT ![u].pc = "raised",
                                          ![u].error = "File not found"]
            /\ UNCHANGED <<files, blobs>>
       ELSE IF uploads[u].kind = "zip"
       THEN LET result == StoreZipFile(files, blobs, u, members)
                supported == {m \in DOMAIN members :
                                members[m] \in {"supported", "unreadable"}}
            IN  /\ Inserted + Len(members) <= MaxFiles
                /\ files' = result.files
                /\ blobs' = result.blobs
                /\ uploads' = [uploads EXCEPT
                        ![u].pc = IF result.error = "none" THEN "returned" ELSE "raised",
                        ![u].supported = supported # {},
                        ![u].error = result.error]
       ELSE /\ members = << >>
            /\ Inserted < MaxFiles
            /\ files' = InsertFile(files, <<u, 0>>)
            /\ uploads' = [uploads EXCEPT ![u].pc = "returned"]
            /\ UNCHANGED blobs
    /\ UNCHANGED epoch

\* an update that inserts the row when there is none
UpdateStatusUpsert(fs, b, status) == [fs EXCEPT ![b].status = status]

\* update(File).where(File.uuid == file.uuid).values(status=...): a row that
\* was deleted meanwhile is not touched
UpdateStatus(fs, b, status) ==
    IF fs[b].status = "none" THEN fs ELSE [fs EXCEPT ![b].status = status]

\* _store_file_task, lines 33-38: the task starts and sets processing
StoreFileTaskStart(b) ==
    /\ files[b].task = "created"
    /\ files' = [UpdateStatus(files, b, "processing") EXCEPT ![b].task = "started"]
    /\ UNCHANGED <<blobs, uploads, epoch>>

\* what lines 43-60 do: they succeed, or storage size or the plugin's ingest
\* (also: no plugin id configured) raises
IngestOutcomes == {"ok", "size_error", "ingest_error"}

\* lines 43-82: completed on success, failed in the except clause; then the
\* finally clause deletes the blob from storage and the task is over
StoreFileTaskIngest(b, outcome) ==
    /\ files[b].task = "started"
    /\ files' = [UpdateStatus(files, b, IF outcome = "ok" THEN "completed" ELSE "failed")
                    EXCEPT ![b].task = "finished"]
    /\ blobs' = blobs \ {b}
    /\ UNCHANGED <<uploads, epoch>>

\* RuntimeKnowledgeBase.delete_file: the plugin deletes the document (a
\* failure is logged) and the row is deleted
DeleteFile(b) ==
    /\ files[b].status # "none"
    /\ files' = [files EXCEPT ![b].status = "none"]
    /\ UNCHANGED <<blobs, uploads, epoch>>

\* load_knowledge_bases_from_db: the runtime map is rebuilt from the
\* KnowledgeBase rows; no File row is read or written
LoadKnowledgeBasesFromDb ==
    /\ knowledge_bases' = kb_rows
    /\ UNCHANGED <<kb_rows, plugin_kbs, creates, deletes>>

\* the process stops and is started again: the ingest tasks of the earlier
\* run are gone, and RAGManager.initialize runs load_knowledge_bases_from_db
Restart ==
    /\ epoch = 0
    /\ epoch' = 1
    /\ files' = [b \in BlobNames |->
                    IF files[b].task \in {"created", "started"}
                    THEN [files[b] EXCEPT !.task = "lost"]
                    ELSE files[b]]
    /\ LoadKnowledgeBasesFromDb
    /\ UNCHANGED <<blobs, uploads>>

NextFiles ==
    \/ \E u \in Uploads, kind \in {"plain", "zip"} : Upload(u, kind) /\ UNCHANGED kb_vars
    \/ \E u \in Uploads, members \in ZipContents : StoreFile(u, members) /\ UNCHANGED kb_vars
    \/ \E b \in BlobNames : StoreFileTaskStart(b) /\ UNCHANGED kb_vars
    \/ \E b \in BlobNames, outcome \in IngestOutcomes :
            StoreFileTaskIngest(b, outcome) /\ UNCHANGED kb_vars
    \/ \E b \in BlobNames : DeleteFile(b) /\ UNCHANGED kb_vars
    \/ Restart

(***************************************************************************)
(* Part VII.  Retriever: hybrid retrieval with Reciprocal Rank Fusion       *)
(***************************************************************************)
RrfConstant == 60
MaxCandidates == 30

Min(a, b) == IF a < b THEN a ELSE b

\* What a provider answers to retrieve(query, n): the ids of at most n
\* chunks of the vector database, each chunk once, best first.
ProviderResults(n) ==
    {s \in UNION {[1..m -> ChunkIds] : m \in 0..Min(n, Cardinality(ChunkIds))} :
        \A i, j \in DOMAIN s : s[i] = s[j] => i = j}

CalculateCandidateCount(top_k) == Min(top_k * 2, MaxCandidates)

RECURSIVE Product(_)
Product(S) ==
    IF S = {} THEN 1
    ELSE LET x == CHOOSE y \in S : TRUE IN x * Product(S \ {x})

\* The scores are kept exact: the float 1.0 / d is represented by the
\* integer Scale / d, where Scale is a common multiple of every divisor
\* d = rrf_constant + rank + 1 a rank can produce.  Two different sums of
\* such terms differ by far more than the rounding error of float addition.
Scale == Product({RrfConstant + rank + 1 : rank \in 0..(Cardinality(ChunkIds) - 1)})

RrfTerm(rank) == Scale \div (RrfConstant + rank + 1)

\* The places <<provider, index>> at which a chunk id occurs.
Hits(lists, id) ==
    {h \in (DOMAIN lists) \X (1..Cardinality(ChunkIds)) :
        h[2] \in DOMAIN lists[h[1]] /\ lists[h[1]][h[2]] = id}

RECURSIVE SumTerms(_)
SumTerms(hits) ==
    IF hits = {} THEN 0
    ELSE LET h == CHOOSE g \in hits : TRUE
         IN RrfTerm(h[2] - 1) + SumTerms(hits \ {h})

\* fused_scores after the two loops: one term per occurrence of the id.
FusedScores(lists) ==
    [id \in {c \in ChunkIds : Hits(lists, c) # {}} |-> SumTerms(Hits(lists, id))]

\* Insertion order of the keys of fused_scores: the order of first occurrence.
FirstHit(lists, id) ==
    CHOOSE h \in Hits(lists, id) :
        \A g \in Hits(lists, id) : h[1] < g[1] \/ (h[1] = g[1] /\ h[2] <= g[2])

InsertedBefore(lists, a, b) ==
    LET ha == FirstHit(lists, a)
        hb == FirstHit(lists, b)
    IN  ha[1] < hb[1] \/ (ha[1] = hb[1] /\ ha[2] < hb[2])

SortKeyAscending(x, y) == x < y

\* sorted(..., reverse=True): the larger key comes first.
SortKeyDescending(x, y) == x > y

\* Every entry of every list, unkeyed.
AllEntries(scores, lists) ==
    [i \in 1..Cardinality(UNION {{p} \X DOMAIN lists[p] : p \in DOMAIN lists}) |->
        CHOOSE id \in ChunkIds : \E p \in DOMAIN lists :
            LET before == Cardinality(UNION {{q} \X DOMAIN lists[q] : q \in 1..(p - 1)})
            IN  i - before \in DOMAIN lists[p] /\ lists[p][i - before] = id]

\* sorted is stable: keys of equal score keep their insertion order.
SortsBefore(scores, lists, a, b) ==
    \/ SortKeyDescending(scores[a], scores[b])
    \/ scores[a] = scores[b] /\ InsertedBefore(lists, a, b)

SortedIds(scores, lists) ==
    [i \in 1..Cardinality(DOMAIN scores) |->
        CHOOSE a \in DOMAIN scores :
            Cardinality({b \in DOMAIN scores : SortsBefore(scores, lists, b, a)}) = i - 1]

FuseResultsWithRrf(lists) ==
    LET fused_scores == FusedScores(lists)
    IN  [fused_scores |-> fused_scores,
         merged_results |-> SortedIds(fused_scores, lists)]

IdleRetrieval ==
    [pc |-> "idle", top_k |-> 0, lists |-> <<>>, fused_scores |-> <<>>, result |-> <<>>]

InitRetriever == retrieval = IdleRetrieval

\* What retrieve(query, top_k) does with one result list per configured
\* provider; provider_error: one of the providers raises (its vector database
\* lacks the capability), which gather passes on to the caller.
RetrieveOutcome(top_k, lists, provider_error) ==
    IF lists = <<>>
    THEN [IdleRetrieval EXCEPT !.pc = "returned", !.top_k = top_k]
    ELSE IF provider_error
    THEN [IdleRetrieval EXCEPT !.pc = "raised", !.top_k = top_k, !.lists = lists]
    ELSE LET fused == FuseResultsWithRrf(lists)
         IN  [pc |-> "returned", top_k |-> top_k, lists |-> lists,
              fused_scores |-> fused.fused_scores,
              result |-> fused.merged_results]

Retrieve ==
    /\ retrieval.pc = "idle"
    /\ \E top_k \in 1..MaxTopK, n \in 0..MaxProviders, provider_error \in BOOLEAN :
          \E lists \in [1..n -> ProviderResults(CalculateCandidateCount(top_k))] :
              /\ provider_error => lists # <<>>
              /\ retrieval' = RetrieveOutcome(top_k, lists, provider_error)

\* The call is over; the retriever keeps nothing of it.
RetrieveDone ==
    /\ retrieval.pc \in {"returned", "raised"}
    /\ retrieval' = IdleRetrieval

NextRetriever == Retrieve \/ RetrieveDone

\* Answers of a provider whose backend may name a chunk more than once.
RepeatingProviderResults(n) ==
    UNION {[1..m -> ChunkIds] : m \in 0..Min(n, Cardinality(ChunkIds))}

\* retrieve over providers that may repeat an id.
RetrieveRepeating ==
    /\ retrieval.pc = "idle"
    /\ \E top_k \in 1..MaxTopK, n \in 0..MaxProviders :
          \E lists \in [1..n -> RepeatingProviderResults(CalculateCandidateCount(top_k))] :
              retrieval' = RetrieveOutcome(top_k, lists, FALSE)

NextRetrieverRepeating == RetrieveRepeating \/ RetrieveDone

(***************************************************************************)
(* Part VIII.  Retrieval providers and the capabilities of their backend    *)
(***************************************************************************)
ProviderSlots == 1..MaxProviders
ProviderTypes == {"hybrid", "vector", "fulltext"}

\* get_capabilities() of a vector database: 'vector' always, the others by
\* backend.
VdbCapabilities == {caps \in SUBSET {"vector", "fulltext", "hybrid"} : "vector" \in caps}

\* The capability each provider class passes to _check_capability.
RequiredCapability(ptype) == ptype

NoProvider == [pc |-> "none", type |-> "none", capabilities |-> {}, retrieved |-> "none"]

InitProviders == providers = [p \in ProviderSlots |-> NoProvider]

CheckCapability(capability, capabilities) ==
    IF capability \notin capabilities THEN "ValueError" ELSE "passed"

\* The constructors store their arguments and read nothing of the backend.
ProviderInit(ptype, capabilities) ==
    [pc |-> "constructed", type |-> ptype, capabilities |-> capabilities,
     retrieved |-> "none"]

\* One entry of the 'providers' configuration: _init_providers constructs the
\* provider of the configured type over the backend the entry names.
ConstructProvider(p, ptype, capabilities) ==
    /\ providers[p].pc = "none"
    /\ providers' = [providers EXCEPT ![p] = ProviderInit(ptype, capabilities)]

\* provider.retrieve(query, top_k): the capability check comes first.
ProviderRetrieve(p) ==
    /\ providers[p].pc = "constructed"
    /\ providers[p].retrieved = "none"
    /\ providers' = [providers EXCEPT ![p].retrieved =
            IF CheckCapability(RequiredCapability(providers[p].type),
                               providers[p].capabilities) = "ValueError"
            THEN "ValueError" ELSE "returned"]

NextProviders ==
    \/ \E p \in ProviderSlots, ptype \in ProviderTypes, capabilities \in VdbCapabilities :
          ConstructProvider(p, ptype, capabilities)
    \/ \E p \in ProviderSlots : ProviderRetrieve(p)

(***************************************************************************)
(* Part IX.  Vector database: SeekDB adapter, VectorDBManager and the       *)
(*           delete requests of plugins                                     *)
(***************************************************************************)
BatchSize == 20

\* file_id values callers pass; "f1<NUL>" is "f1" followed by a null byte.
FileIds == {"f1", "f2", "f1<NUL>"}

\* _clean_metadata on a string value: control characters are removed.
CleanMetadata(file_id) == IF file_id = "f1<NUL>" THEN "f1" ELSE file_id

StoredFileIds == {CleanMetadata(f) : f \in FileIds}

\* Sizes of an add_embeddings call: one row, and a full last batch, after
\* each number of full batches.
ItemCounts == {k * BatchSize + r : k \in 0..(MaxBatches - 1), r \in {1, BatchSize}}

IdleAdd ==
    [pc |-> "idle", file_id |-> "none", total_items |-> 0, successful_inserts |-> 0,
     persisted |-> 0, error |-> [raised_by |-> "none", persisted_count |-> "absent"]]

NoOp ==
    [op |-> "none", file_ids |-> {}, filters |-> FALSE, outcome |-> "none",
     count |-> "none", deleted |-> {}, removed |-> FALSE]

AddOp == [NoOp EXCEPT !.op = "add_embeddings"]

InitVector ==
    /\ collection = [f \in StoredFileIds |-> 0]
    /\ exists = FALSE
    /\ add_call = IdleAdd
    /\ last_op = NoOp

\* add_embeddings up to the first insert: the rows of one file, total_items
\* of them with fresh ids; the collection is created when missing.
AddEmbeddingsStart(file_id, total_items) ==
    /\ add_call.pc = "idle"
    /\ collection[CleanMetadata(file_id)] = 0
    /\ add_call' = [IdleAdd EXCEPT !.pc = "adding", !.file_id = file_id,
                                   !.total_items = total_items]
    /\ exists' = TRUE
    /\ last_op' = AddOp
    /\ UNCHANGED collection

\* The exception coll.add raised, re-raised by the bare raise statements.
AddError == [raised_by |-> "coll.add", persisted_count |-> "absent"]

\* One coll.add: the single insert of a call of at most batch_size items, or
\* the next batch of a larger call.  db_ok: the database accepts the rows.
AddBatch(db_ok) ==
    /\ add_call.pc = "adding"
    /\ LET key == CleanMetadata(add_call.file_id)
           left == add_call.total_items - add_call.successful_inserts
           batch_count == IF add_call.total_items <= BatchSize THEN add_call.total_items
                          ELSE Min(BatchSize, left)
           inserted == add_call.successful_inserts + batch_count
       IN  IF db_ok
           THEN /\ collection' = [collection EXCEPT ![key] = @ + batch_count]
                /\ add_call' = [add_call EXCEPT
                        !.successful_inserts = inserted,
                        !.pc = IF inserted = add_call.total_items THEN "returned" ELSE "adding"]
           ELSE /\ UNCHANGED collection
                /\ add_call' =
                     IF add_call.total_items > BatchSize /\ add_call.successful_inserts > 0
                     THEN [add_call EXCEPT !.pc = "rollback"]
                     ELSE [add_call EXCEPT !.pc = "raised", !.error = AddError,
                                           !.persisted = collection[key]]
    /\ last_op' = AddOp
    /\ UNCHANGED exists

\* coll.delete(ids=ids[:successful_inserts]): the rows carrying the file_id
\* are the rows of this call, so the delete leaves none of them; a failure of
\* the delete is logged and the insert error is raised all the same.
Rollback(db_ok) ==
    /\ add_call.pc = "rollback"
    /\ LET key == CleanMetadata(add_call.file_id)
           rows == IF db_ok THEN 0 ELSE collection[key]
       IN  /\ collection' = [collection EXCEPT ![key] = rows]
           /\ add_call' = [add_call EXCEPT !.pc = "raised", !.error = AddError,
                                           !.persisted = rows]
    /\ last_op' = AddOp
    /\ UNCHANGED exists

\* The call is over.
AddEmbeddingsDone ==
    /\ add_call.pc \in {"returned", "raised"}
    /\ add_call' = IdleAdd
    /\ UNCHANGED <<collection, exists, last_op>>

DeleteWhereNothing(rows, file_id) == rows

\* coll.delete(where={'file_id': file_id}) on the rows of the collection.
DeleteWhere(rows, file_id) ==
    [f \in StoredFileIds |-> IF f = file_id THEN 0 ELSE rows[f]]

\* SeekDBVectorDatabase.delete_by_file_id on the rows.
SeekDeleteByFileId(rows, file_id) ==
    IF ~exists THEN rows ELSE DeleteWhere(rows, file_id)

\* The rows a search finds whose metadata.file_id equals file_id.
SearchHits(rows, file_id) ==
    IF exists /\ file_id \in StoredFileIds THEN rows[file_id] ELSE 0

RECURSIVE DeleteEach(_, _)
DeleteEach(rows, ids) ==
    IF ids = {} THEN rows
    ELSE LET id == CHOOSE x \in ids : TRUE
         IN  DeleteEach(SeekDeleteByFileId(rows, id), ids \ {id})

\* VectorDBManager.delete: delete_by_file_id for every id of the list.
MgrDelete(rows, ids) == DeleteEach(rows, ids)

\* VectorDBManager.delete_by_filter: logs a warning and returns None.
MgrDeleteByFilter == "None"

DeleteByFileId(file_id) ==
    /\ collection' = SeekDeleteByFileId(collection, file_id)
    /\ last_op' = [NoOp EXCEPT !.op = "delete_by_file_id", !.file_ids = {file_id},
                               !.outcome = "returned", !.deleted = {file_id},
                               !.removed = (collection' # collection)]
    /\ UNCHANGED <<exists, add_call>>

\* The RAG_VECTOR_DELETE action of the plugin connection.
RagVectorDelete(ids, filters, db_ok) ==
    /\ IF ids # {}
       THEN IF db_ok
            THEN /\ collection' = MgrDelete(collection, ids)
                 /\ last_op' = [NoOp EXCEPT !.op = "rag_vector_delete", !.file_ids = ids,
                                            !.filters = filters, !.outcome = "success",
                                            !.count = Cardinality(ids), !.deleted = ids,
                                            !.removed = (collection' # collection)]
            ELSE /\ UNCHANGED collection
                 /\ last_op' = [NoOp EXCEPT !.op = "rag_vector_delete", !.file_ids = ids,
                                            !.filters = filters, !.outcome = "error"]
       ELSE /\ UNCHANGED collection
            /\ last_op' = [NoOp EXCEPT !.op = "rag_vector_delete", !.filters = filters,
                                       !.outcome = "success", !.count = 0]
    /\ UNCHANGED <<exists, add_call>>

\* RAGRuntimeService.vector_delete; VectorDBManager has no delete_by_file_id.
VectorDelete(file_ids, filters) ==
    /\ last_op' =
         IF file_ids # {}
         THEN [NoOp EXCEPT !.op = "vector_delete", !.file_ids = file_ids,
                           !.filters = filters, !.outcome = "AttributeError"]
         ELSE IF filters
         THEN [NoOp EXCEPT !.op = "vector_delete", !.filters = TRUE,
                           !.outcome = "returned", !.count = MgrDeleteByFilter]
         ELSE [NoOp EXCEPT !.op = "vector_delete", !.outcome = "returned", !.count = 0]
    /\ UNCHANGED <<collection, exists, add_call>>

NextVector ==
    \/ \E file_id \in FileIds, total_items \in ItemCounts :
          AddEmbeddingsStart(file_id, total_items)
    \/ \E db_ok \in BOOLEAN : AddBatch(db_ok)
    \/ \E db_ok \in BOOLEAN : Rollback(db_ok)
    \/ AddEmbeddingsDone
    \/ \E file_id \in FileIds : DeleteByFileId(file_id)
    \/ \E ids \in SUBSET FileIds, filters, db_ok \in BOOLEAN : RagVectorDelete(ids, filters, db_ok)
    \/ \E file_ids \in SUBSET FileIds, filters \in BOOLEAN : VectorDelete(file_ids, filters)

(***************************************************************************)
(* Part X.  Pipeline runtime: the stage list of a query and the pipeline    *)
(*          concurrency semaphore (pkg/pipeline/pipelinemgr.py, described   *)
(*          by the specification's pipeline and concurrency sections)       *)
(***************************************************************************)
QueryIds == 1..MaxQueries

\* The ordered stage_containers of the RuntimePipeline; the reply stage is
\* the last one.
StageContainers ==
    <<"BanSessionCheckStage", "RequireRateLimitOccupancy", "MessageProcessor",
      "SendResponseBackStage">>

ReplyStage == Len(StageContainers)

StageKind(i) == IF i = ReplyStage THEN "reply" ELSE "processing"

\* What a stage's step ends in: its ResultType (an INTERRUPT with or without
\* user_notice), a plugin preventing the default after it, or an exception.
StageOutcomes == {"CONTINUE", "INTERRUPT", "INTERRUPT_NOTICE", "PREVENTED", "raised"}

NoQuery ==
    [pc |-> "none", stage |-> 0, executed |-> <<>>, interrupted_at |-> 0]

InitPipeline ==
    /\ queries = [q \in QueryIds |-> NoQuery]
    /\ semaphore = ConcurrencyPipeline

AfterStageIgnoringInterrupt(i, outcome) ==
    IF outcome = "raised" \/ i = ReplyStage THEN 0 ELSE i + 1

\* The stage to run after stage i (0: the run is over).  CONTINUE proceeds to
\* the next stage; INTERRUPT stops, going to the reply stage only when a
\* user_notice is set; a prevented default skips to the reply stage.
AfterStage(i, outcome) ==
    IF outcome = "CONTINUE"
    THEN IF i = ReplyStage THEN 0 ELSE i + 1
    ELSE IF outcome \in {"INTERRUPT_NOTICE", "PREVENTED"} /\ i < ReplyStage
    THEN ReplyStage
    ELSE 0

AcquireSlotUncounted(free) == free

AcquireSlot(free) == free - 1

ReleaseSlot(free) == free + 1

\* Query ingress: the query is created and waits at the semaphore.
Ingress(q) ==
    /\ queries[q].pc = "none"
    /\ queries' = [queries EXCEPT ![q].pc = "waiting"]
    /\ UNCHANGED semaphore

Acquire(q) ==
    /\ queries[q].pc = "waiting"
    /\ semaphore > 0
    /\ semaphore' = AcquireSlot(semaphore)
    /\ queries' = [queries EXCEPT ![q].pc = "running", ![q].stage = 1]

\* One stage of the run; the slot is released when the run ends here.
RunStage(q, outcome) ==
    /\ queries[q].pc = "running"
    /\ LET i == queries[q].stage
           next == AfterStage(i, outcome)
       IN  /\ queries' = [queries EXCEPT
                  ![q].executed = Append(@, i),
                  ![q].interrupted_at =
                      IF outcome \in {"INTERRUPT", "INTERRUPT_NOTICE"} /\ @ = 0 THEN i ELSE @,
                  ![q].stage = next,
                  ![q].pc = IF next # 0 THEN "running"
                            ELSE IF outcome = "raised" THEN "error" ELSE "done"]
           /\ semaphore' = IF next = 0 THEN ReleaseSlot(semaphore) ELSE semaphore

NextPipeline ==
    \/ \E q \in QueryIds : Ingress(q)
    \/ \E q \in QueryIds : Acquire(q)
    \/ \E q \in QueryIds, outcome \in StageOutcomes : RunStage(q, outcome)

(***************************************************************************)
(* Part XI.  Pipeline stages: BanSessionCheckStage and RateLimit            *)
(*           (pkg/pipeline/bansess, pkg/pipeline/ratelimit, described by    *)
(*           the specification's stage section and exercised by             *)
(*           tests/pipeline/test_bansess.py and test_ratelimit.py)          *)
(***************************************************************************)
LauncherTypes == {"person", "group"}
LauncherIds == {"12345", "99999"}

\* An access-control spec "<type>_<id>", "*" being the id wildcard.
SessionSpecs == LauncherTypes \X (LauncherIds \cup {"*"})

SpecLists == {l \in SUBSET SessionSpecs : Cardinality(l) <= MaxSpecs}

MatchesLiterally(spec, launcher_type, launcher_id) ==
    spec = <<launcher_type, launcher_id>>

\* "<type>_*" matches every session of the type, a literal spec exactly one.
Matches(spec, launcher_type, launcher_id) ==
    /\ spec[1] = launcher_type
    /\ spec[2] \in {"*", launcher_id}

\* BanSessionCheckStage.process on config.trigger.access-control.
BanSessionCheck(mode, whitelist, blacklist, launcher_type, launcher_id) ==
    LET found(l) == \E spec \in l : Matches(spec, launcher_type, launcher_id)
        ctn == IF mode = "whitelist" THEN found(whitelist)
               ELSE IF mode = "blacklist" THEN ~found(blacklist)
               ELSE FALSE
    IN  [result_type |-> IF ctn THEN "CONTINUE" ELSE "INTERRUPT", user_notice |-> "none"]

\* The notice, its characters written as \uXXXX code points.
RateLimitNotice ==
    "\\u8bf7\\u6c42\\u6570\\u8d85\\u8fc7\\u9650\\u901f\\u5668\\u8bbe\\u5b9a\\u503c,\\u5df2\\u4e22\\u5f03\\u672c\\u6d88\\u606f\\u3002"

RateLimitSilent(inst_name, granted) ==
    [result_type |-> IF inst_name = "RequireRateLimitOccupancy" /\ ~granted
                     THEN "INTERRUPT" ELSE "CONTINUE",
     user_notice |-> "none"]

\* RateLimit.process by inst_name; granted: what the algorithm's
\* require_access answers for the session.
RateLimitProcess(inst_name, granted) ==
    IF inst_name = "RequireRateLimitOccupancy" /\ ~granted
    THEN [result_type |-> "INTERRUPT", user_notice |-> RateLimitNotice]
    ELSE [result_type |-> "CONTINUE", user_notice |-> "none"]

NoStageCall ==
    [inst_name |-> "none", mode |-> "none", whitelist |-> {}, blacklist |-> {},
     launcher_type |-> "none", launcher_id |-> "none", granted |-> FALSE,
     result |-> [result_type |-> "none", user_notice |-> "none"]]

InitStages == stage_call = NoStageCall

\* BanSessionCheckStage.process(query, 'BanSessionCheckStage').
ProcessBanSession ==
    /\ stage_call = NoStageCall
    /\ \E mode \in {"whitelist", "blacklist"}, whitelist, blacklist \in SpecLists,
          launcher_type \in LauncherTypes, launcher_id \in LauncherIds :
          stage_call' = [NoStageCall EXCEPT
              !.inst_name = "BanSessionCheckStage", !.mode = mode,
              !.whitelist = whitelist, !.blacklist = blacklist,
              !.launcher_type = launcher_type, !.launcher_id = launcher_id,
              !.result = BanSessionCheck(mode, whitelist, blacklist,
                                         launcher_type, launcher_id)]

\* RateLimit.process(query, inst_name).
ProcessRateLimit ==
    /\ stage_call = NoStageCall
    /\ \E inst_name \in {"RequireRateLimitOccupancy", "ReleaseRateLimitOccupancy"},
          granted \in BOOLEAN :
          stage_call' = [NoStageCall EXCEPT
              !.inst_name = inst_name, !.granted = granted,
              !.result = RateLimitProcess(inst_name, granted)]

\* The runtime has taken the result.
StageReturned ==
    /\ stage_call # NoStageCall
    /\ stage_call' = NoStageCall

NextStages == ProcessBanSession \/ ProcessRateLimit \/ StageReturned

(***************************************************************************)
(* Part XII.  QQ official adapter: message and event converters             *)
(*            (langbot/pkg/platform/sources/qqofficial.py)                  *)
(***************************************************************************)
\* event.t of the QQOfficialEvent.
EventTypes ==
    {"C2C_MESSAGE_CREATE", "DIRECT_MESSAGE_CREATE", "GROUP_AT_MESSAGE_CREATE",
     "AT_MESSAGE_CREATE", "OTHER"}

\* An attachment of the quoted message: an image that downloads, an image
\* whose download fails, or something that is no image.
AttachmentKinds == {"image", "image_unavailable", "other"}

AttachmentLists == UNION {[1..n -> AttachmentKinds] : n \in 0..MaxAttachments}

\* message_reference and what get_message_by_id answers for it.
References ==
    {[kind |-> k, content |-> FALSE, attachments |-> <<>>] :
        k \in {"absent", "fetch_raises", "not_found"}}
    \cup {[kind |-> "found", content |-> c, attachments |-> a] :
            c \in BOOLEAN, a \in AttachmentLists}

\* event.attachments: no picture, one that downloads, one whose download raises.
Pictures == {"none", "image", "image_unavailable"}

RECURSIVE QuotedImages(_)
QuotedImages(attachments) ==
    IF attachments = <<>> THEN <<>>
    ELSE (IF Head(attachments) = "image" THEN <<"Image">> ELSE <<>>)
         \o QuotedImages(Tail(attachments))

\* The origin chain of the Quote component.
QuotedChain(reference) ==
    (IF reference.content THEN <<"Plain">> ELSE <<>>) \o QuotedImages(reference.attachments)

\* QQOfficialMessageConverter.target2yiri: the component types of the chain,
\* or the exception of the picture download.
MessageTarget2Yiri(reference, pic_url) ==
    LET source == <<"Source">>
        quote == IF reference.kind = "found" THEN <<"Quote">> ELSE <<>>
    IN  IF pic_url = "image_unavailable"
        THEN [raised |-> TRUE, chain |-> <<>>, origin |-> <<>>]
        ELSE [raised |-> FALSE,
              chain |-> source \o quote
                        \o (IF pic_url = "image" THEN <<"Image">> ELSE <<>>)
                        \o <<"Plain">>,
              origin |-> IF reference.kind = "found" THEN QuotedChain(reference) ELSE <<>>]

\* list.insert(0, component)
InsertFirst(chain, component) == <<component>> \o chain

\* QQOfficialEventConverter.target2yiri: the event handed to the listeners.
EventTarget2Yiri(t, reference, pic_url) ==
    LET yiri == MessageTarget2Yiri(reference, pic_url)
    IN  IF yiri.raised
        THEN [event |-> "raised", chain |-> <<>>, origin |-> <<>>]
        ELSE IF t \in {"C2C_MESSAGE_CREATE", "DIRECT_MESSAGE_CREATE"}
        THEN [event |-> "FriendMessage", chain |-> yiri.chain, origin |-> yiri.origin]
        ELSE IF t \in {"GROUP_AT_MESSAGE_CREATE", "AT_MESSAGE_CREATE"}
        THEN [event |-> "GroupMessage", chain |-> InsertFirst(yiri.chain, "At"),
              origin |-> yiri.origin]
        ELSE [event |-> "None", chain |-> <<>>, origin |-> <<>>]

NoConversion ==
    [t |-> "none", reference |-> "none", pic_url |-> "none",
     result |-> [event |-> "none", chain |-> <<>>, origin |-> <<>>]]

InitConverter == conversion = NoConversion

Target2Yiri ==
    /\ conversion = NoConversion
    /\ \E t \in EventTypes, reference \in References, pic_url \in Pictures :
          conversion' = [t |-> t, reference |-> reference, pic_url |-> pic_url,
                         result |-> EventTarget2Yiri(t, reference, pic_url)]

\* The event has been handed to the listeners.
EventDelivered ==
    /\ conversion # NoConversion
    /\ conversion' = NoConversion

NextConverter == Target2Yiri \/ EventDelivered

(***************************************************************************)
(* Part XIII.  Environment-variable overrides of the YAML configuration     *)
(*             (pkg/config/impls/yaml.py)                                   *)
(***************************************************************************)
\* A configuration value: its Python type and the text of its value.
Node(tag, val) == [tag |-> tag, val |-> val]

DictNode == Node("dict", "")
ListNode == Node("list", "")
NoneNode == Node("none", "")

\* The values a leaf of the loaded file takes.
LeafValues == {Node("int", "1"), Node("bool", "False"), ListNode, NoneNode}

\* The configurations: a function from key paths to values, <<>> being the
\* top-level dict.  Shape  {a: {b: {a: x}, c: y}, b: {a: z}, c: 1}.
Configs ==
    {  <<>> :> DictNode
    @@ <<"a">> :> DictNode
    @@ <<"a", "b">> :> DictNode
    @@ <<"a", "b", "a">> :> x
    @@ <<"a", "c">> :> y
    @@ <<"b">> :> DictNode
    @@ <<"b", "a">> :> z
    @@ <<"c">> :> Node("int", "1")
       : x \in LeafValues, y \in LeafValues, z \in LeafValues}

\* Names of environment variables, as the segments between "__".
EnvKeys ==
    {<<"A", "B">>, <<"A", "C">>, <<"B", "A">>, <<"A", "B", "A">>, <<"A", "B", "C">>,
     <<"a", "c">>, <<"C">>}

EnvValues == {"5", "TRUE"}

\* os.environ in iteration order: a sequence of variables with distinct names.
Environments ==
    {env \in UNION {[1..n -> [key : EnvKeys, value : EnvValues]] : n \in 0..MaxEnvVars} :
        \A i, j \in DOMAIN env : env[i].key = env[j].key => i = j}

\* str.lower() on a segment or a value.
Lower(s) ==
    CASE s = "A" -> "a" [] s = "B" -> "b" [] s = "C" -> "c" [] s = "TRUE" -> "true"
      [] OTHER -> s

\* env_key.isupper(): there is a cased character and none is lowercase.
EnvKeyAnyCase(env_key) == TRUE

EnvKeyIsUpper(env_key) == \A i \in DOMAIN env_key : env_key[i] \in {"A", "B", "C"}

\* '__' in env_key
HasDelimiter(env_key) == Len(env_key) >= 2

\* [key.lower() for key in env_key.split('__')]
ConfigPath(env_key) == [i \in DOMAIN env_key |-> Lower(env_key[i])]

\* key in current, current being the dict at path cur.
HasKey(cfg, cur, key) == (cur \o <<key>>) \in DOMAIN cfg

IsDictAt(cfg, cur) == cur \in DOMAIN cfg /\ cfg[cur].tag = "dict"

IsContainer(node) == node.tag \in {"dict", "list"}

\* The loop that looks up the original value: the last key is recognised by
\* its value (key == keys[-1]), and a recognised key does not descend.
RECURSIVE LookupOriginal(_, _, _, _, _)
LookupOriginal(cfg, keys, i, cur, original_value) ==
    IF i > Len(keys) THEN [valid_path |-> TRUE, original_value |-> original_value]
    ELSE IF ~IsDictAt(cfg, cur) \/ ~HasKey(cfg, cur, keys[i])
    THEN [valid_path |-> FALSE, original_value |-> original_value]
    ELSE IF keys[i] = keys[Len(keys)]
    THEN LookupOriginal(cfg, keys, i + 1, cur, cfg[cur \o <<keys[i]>>])
    ELSE LookupOriginal(cfg, keys, i + 1, cur \o <<keys[i]>>, original_value)

\* int(value) and float(value) on the values of the environment.
ParsesAsNumber(value) == value \in {"5"}

FloatText(value) == IF value = "5" THEN "5.0" ELSE value

ConvertValue(value, original_value) ==
    CASE original_value.tag = "bool" ->
            Node("bool", IF Lower(value) \in {"true", "1", "yes", "on"} THEN "True" ELSE "False")
      [] original_value.tag = "int" ->
            IF ParsesAsNumber(value) THEN Node("int", value) ELSE Node("str", value)
      [] original_value.tag = "float" ->
            IF ParsesAsNumber(value) THEN Node("float", FloatText(value)) ELSE Node("str", value)
      [] OTHER -> Node("str", value)

\* set_nested_value: every key but the last leads through a dict, the last
\* key exists and holds neither a dict nor a list.
SetNestedValue(cfg, keys, value) ==
    IF keys = <<>> THEN cfg
    ELSE IF \E i \in 1..(Len(keys) - 1) : ~IsDictAt(cfg, SubSeq(keys, 1, i)) THEN cfg
    ELSE IF keys \notin DOMAIN cfg THEN cfg
    ELSE IF IsContainer(cfg[keys]) THEN cfg
    ELSE [cfg EXCEPT ![keys] = value]

\* One iteration of the loop over os.environ.
ApplyOne(cfg, env_key, env_value) ==
    IF ~EnvKeyIsUpper(env_key) THEN cfg
    ELSE IF ~HasDelimiter(env_key) THEN cfg
    ELSE LET keys == ConfigPath(env_key)
             found == LookupOriginal(cfg, keys, 1, <<>>, NoneNode)
         IN  IF ~found.valid_path \/ found.original_value = NoneNode THEN cfg
             ELSE IF IsContainer(found.original_value) THEN cfg
             ELSE SetNestedValue(cfg, keys, ConvertValue(env_value, found.original_value))

RECURSIVE ApplyEnvOverrides(_, _)
ApplyEnvOverrides(cfg, env) ==
    IF env = <<>> THEN cfg
    ELSE ApplyEnvOverrides(ApplyOne(cfg, Head(env).key, Head(env).value), Tail(env))

NoOverride == [pc |-> "idle", env |-> <<>>, cfg |-> <<>>, once |-> <<>>, twice |-> <<>>]

InitOverride == override = NoOverride

\* YAMLConfigFile.load: the file's configuration with the overrides applied.
Load ==
    /\ override.pc = "idle"
    /\ \E cfg \in Configs, env \in Environments :
          override' = [pc |-> "applied", env |-> env, cfg |-> cfg,
                       once |-> ApplyEnvOverrides(cfg, env), twice |-> <<>>]

\* The overrides applied again to the result, the environment unchanged.
ApplyAgain ==
    /\ override.pc = "applied"
    /\ override' = [override EXCEPT !.pc = "reapplied",
                                    !.twice = ApplyEnvOverrides(override.once, override.env)]

OverrideDone ==
    /\ override.pc = "reapplied"
    /\ override' = NoOverride

NextOverride == Load \/ ApplyAgain \/ OverrideDone

(***************************************************************************)
(* Part XIV.  QQ official callback validation (libs/qq_official_api/api.py) *)
(***************************************************************************)
\* ed25519.SeedSize: the length the seed is extended and cut to.
SeedSize == 32

\* The request body: not a dict, without 'd', or with a 'd' that lacks
\* event_ts, lacks plain_token, or is complete.
Bodies == {"not_dict", "no_d", "no_event_ts", "no_plain_token", "complete"}

\* len(bot_secret): short secrets, and secrets of the seed size and above.
SecretLengths == (0..MaxSecretLen) \cup {SeedSize, SeedSize + 1}

\* ascii: every character of the secret encodes to one byte.
Secrets ==
    {[length |-> n, ascii |-> a] : n \in SecretLengths, a \in BOOLEAN} \
    {[length |-> 0, ascii |-> FALSE]}

NoValidation ==
    [pc |-> "idle", body |-> "none", bot_secret |-> [length |-> 0, ascii |-> TRUE],
     seed |-> 0, result |-> "none"]

InitValidation == validation_call = NoValidation

\* lines 24-39: the payload is parsed; a complete payload leads to the loop.
ParsePayload(body) ==
    IF body = "not_dict" THEN "exception"
    ELSE IF body = "no_d" THEN "None"
    ELSE IF body \in {"no_event_ts", "no_plain_token"} THEN "None"
    ELSE "seed"

HandleValidation ==
    /\ validation_call.pc = "idle"
    /\ \E body \in Bodies, bot_secret \in Secrets :
          validation_call' =
              IF ParsePayload(body) = "seed"
              THEN [pc |-> "loop", body |-> body, bot_secret |-> bot_secret,
                    seed |-> bot_secret.length, result |-> "none"]
              ELSE [pc |-> "returned", body |-> body, bot_secret |-> bot_secret,
                    seed |-> 0, result |-> "None"]

\* line 41: seed = seed * 2, on the length of the seed
Extend(seed_length) == seed_length * 2

\* lines 40-41: one iteration of `while len(seed) < 32`
ExtendSeed ==
    /\ validation_call.pc = "loop"
    /\ validation_call.seed < SeedSize
    /\ validation_call' = [validation_call EXCEPT !.seed = Extend(validation_call.seed)]

\* len(seed[:32].encode()): more than one byte for a character that is not ASCII
SeedBytes(seed_length, ascii) ==
    LET cut == IF seed_length > SeedSize THEN SeedSize ELSE seed_length
    IN  IF ascii THEN cut ELSE cut + 1

\* lines 42-77: the seed is cut and encoded; from_private_bytes raises unless
\* it is given exactly 32 bytes, and the exception is answered by None.
SignToken ==
    /\ validation_call.pc = "loop"
    /\ validation_call.seed >= SeedSize
    /\ validation_call' =
          [validation_call EXCEPT
              !.pc = "returned",
              !.result = IF SeedBytes(validation_call.seed, validation_call.bot_secret.ascii) = SeedSize
                         THEN "response" ELSE "None"]

ValidationReturned ==
    /\ validation_call.pc = "returned"
    /\ validation_call' = NoValidation

NextValidation == HandleValidation \/ ExtendSeed \/ SignToken \/ ValidationReturned

(***************************************************************************)
(* Part XV.  Binary storage of plugins: set_binary_storage                  *)
(*           (langbot/pkg/plugin/handler.py)                                *)
(***************************************************************************)
Writers == 1..MaxWriters

\* (owner_type, owner, key) of a stored value.
StorageKeys == {<<"plugin", "author/name", "k1">>, <<"plugin", "author/name", "k2">>}

IdleWriter == [pc |-> "idle", storage_key |-> <<>>, found |-> FALSE, outcome |-> "none"]

\* binary_storage maps each triple to the values of the rows that carry it;
\* a call stores its own number as the value.
InitStorage ==
    /\ binary_storage = [k \in StorageKeys |-> <<>>]
    /\ writers = [w \in Writers |-> IdleWriter]

\* the SELECT of the triple: result.first() is not None
SelectRow(rows, storage_key) == rows[storage_key] # <<>>

\* set_binary_storage up to the return of its SELECT.
SetBinaryStorage(w) ==
    /\ writers[w].pc = "idle"
    /\ \E storage_key \in StorageKeys :
          writers' = [writers EXCEPT ![w] =
              [pc |-> "selected", storage_key |-> storage_key,
               found |-> SelectRow(binary_storage, storage_key), outcome |-> "none"]]
    /\ UNCHANGED binary_storage

\* UPDATE ... WHERE key, owner_type, owner: every row of the triple
UpdateRows(rows, storage_key, value) ==
    [rows EXCEPT ![storage_key] = [i \in DOMAIN rows[storage_key] |-> value]]

\* INSERT of a row with unique_key = f'{owner_type}:{owner}:{key}'
InsertRow(rows, storage_key, value) ==
    [rows EXCEPT ![storage_key] = Append(rows[storage_key], value)]

\* The UPDATE or the INSERT chosen by what the SELECT had found.  An INSERT
\* meeting a row of the same triple is either refused by the table (the
\* call raises) or stored as a second row, as the table's constraints decide.
WriteRow(w) ==
    LET storage_key == writers[w].storage_key
    IN  /\ writers[w].pc = "selected"
        /\ IF writers[w].found
           THEN /\ binary_storage' = UpdateRows(binary_storage, storage_key, w)
                /\ writers' = [writers EXCEPT ![w].pc = "done", ![w].outcome = "success"]
           ELSE IF binary_storage[storage_key] = <<>>
           THEN /\ binary_storage' = InsertRow(binary_storage, storage_key, w)
                /\ writers' = [writers EXCEPT ![w].pc = "done", ![w].outcome = "success"]
           ELSE \/ /\ UNCHANGED binary_storage
                   /\ writers' = [writers EXCEPT ![w].pc = "done", ![w].outcome = "error"]
                \/ /\ binary_storage' = InsertRow(binary_storage, storage_key, w)
                   /\ writers' = [writers EXCEPT ![w].pc = "done", ![w].outcome = "success"]

\* The response has been sent; the plugin may call again.
WriterReturned(w) ==
    /\ writers[w].pc = "done"
    /\ writers' = [writers EXCEPT ![w] = IdleWriter]
    /\ UNCHANGED binary_storage

NextStorage ==
    \/ \E w \in Writers : SetBinaryStorage(w)
    \/ \E w \in Writers : WriteRow(w)
    \/ \E w \in Writers : WriterReturned(w)

(***************************************************************************)
(* Part XVI.  SeekDB adapter: the stored collection behind a logical name   *)
(*            (langbot/pkg/vector/vdbs/seekdb.py)                           *)
(***************************************************************************)
\* Logical collection names, as their characters: "kb-1", "kb_1", "kb-2".
CollectionNames ==
    {<<"k", "b", "-", "1">>, <<"k", "b", "_", "1">>, <<"k", "b", "-", "2">>}

\* collection.replace('-', '_')
SanitizeCollectionName(name) ==
    [i \in DOMAIN name |-> IF name[i] = "-" THEN "_" ELSE name[i]]

NoNamedOp == [op |-> "none", collection |-> <<>>, file_id |-> "none", touched |-> {}]

\* seekdb_collections: the rows of each stored collection, by its name in the
\* database; a row remembers the logical name it was added under.
InitNamed ==
    /\ seekdb_collections = << >>
    /\ named_op = NoNamedOp

StoredRows(colls, safe_collection) ==
    IF safe_collection \in DOMAIN colls THEN colls[safe_collection] ELSE {}

\* add_embeddings: the collection is looked up or created under the
\* sanitized name and the rows of the file are added to it.
NamedAddEmbeddings ==
    /\ named_op = NoNamedOp
    /\ \E name \in CollectionNames, file_id \in StoredFileIds :
          LET safe_collection == SanitizeCollectionName(name)
              row == [collection |-> name, file_id |-> file_id]
          IN  /\ row \notin StoredRows(seekdb_collections, safe_collection)
              /\ seekdb_collections' =
                    DictSet(seekdb_collections, safe_collection,
                            StoredRows(seekdb_collections, safe_collection) \cup {row})
              /\ named_op' = [op |-> "add_embeddings", collection |-> name,
                              file_id |-> file_id, touched |-> {row}]

\* search: the rows the query of the sanitized name can return.
NamedSearch ==
    /\ named_op = NoNamedOp
    /\ \E name \in CollectionNames :
          LET safe_collection == SanitizeCollectionName(name)
          IN  /\ safe_collection \in DOMAIN seekdb_collections
              /\ named_op' = [op |-> "search", collection |-> name, file_id |-> "none",
                              touched |-> seekdb_collections[safe_collection]]
    /\ UNCHANGED seekdb_collections

\* delete_by_file_id: coll.delete(where={'file_id': file_id}) on the
\* collection of the sanitized name, when it exists.
NamedDeleteByFileId ==
    /\ named_op = NoNamedOp
    /\ \E name \in CollectionNames, file_id \in StoredFileIds :
          LET safe_collection == SanitizeCollectionName(name)
              deleted == {row \in StoredRows(seekdb_collections, safe_collection) :
                              row.file_id = file_id}
          IN  /\ seekdb_collections' =
                    IF safe_collection \in DOMAIN seekdb_collections
                    THEN [seekdb_collections EXCEPT ![safe_collection] = @ \ deleted]
                    ELSE seekdb_collections
              /\ named_op' = [op |-> "delete_by_file_id", collection |-> name,
                              file_id |-> file_id, touched |-> deleted]

NamedOpReturned ==
    /\ named_op # NoNamedOp
    /\ named_op' = NoNamedOp
    /\ UNCHANGED seekdb_collections

NextNamed == NamedAddEmbeddings \/ NamedSearch \/ NamedDeleteByFileId \/ NamedOpReturned

Init ==
    InitWebChat /\ InitPool /\ InitWs /\ InitWebhook /\ InitKb /\ InitFiles /\ InitService
    /\ InitRetriever /\ InitProviders /\ InitVector /\ InitPipeline /\ InitStages
    /\ InitConverter
    /\ InitOverride
    /\ InitValidation
    /\ InitStorage
    /\ InitNamed

SpecWebChat ==
    Init /\ [][NextWebChat /\ UNCHANGED <<pool_vars, ws_vars, webhook_vars, kb_vars, file_vars, service_vars, retriever_vars, provider_vars, vector_vars, pipeline_vars, stage_vars, converter_vars, override_vars, validation_vars, storage_vars, named_vars>>]_vars

SpecPool ==
    Init /\ [][NextPool /\ UNCHANGED <<webchat_vars, ws_vars, webhook_vars, kb_vars, file_vars, service_vars, retriever_vars, provider_vars, vector_vars, pipeline_vars, stage_vars, converter_vars, override_vars, validation_vars, storage_vars, named_vars>>]_vars

SpecBroadcast ==
    Init /\ [][NextBroadcast /\ UNCHANGED <<webchat_vars, ws_vars, webhook_vars, kb_vars, file_vars, service_vars, retriever_vars, provider_vars, vector_vars, pipeline_vars, stage_vars, converter_vars, override_vars, validation_vars, storage_vars, named_vars>>]_vars

SpecWs == Init /\ [][NextWs /\ UNCHANGED <<webchat_vars, webhook_vars, kb_vars, file_vars, service_vars, retriever_vars, provider_vars, vector_vars, pipeline_vars, stage_vars, converter_vars, override_vars, validation_vars, storage_vars, named_vars>>]_vars

SpecWsExit == Init /\ [][NextWsExit /\ UNCHANGED <<webchat_vars, webhook_vars, kb_vars, file_vars, service_vars, retriever_vars, provider_vars, vector_vars, pipeline_vars, stage_vars, converter_vars, override_vars, validation_vars, storage_vars, named_vars>>]_vars

SpecWebhook ==
    Init /\ [][NextWebhook /\ UNCHANGED <<webchat_vars, pool_vars, ws_vars, kb_vars, file_vars, service_vars, retriever_vars, provider_vars, vector_vars, pipeline_vars, stage_vars, converter_vars, override_vars, validation_vars, storage_vars, named_vars>>]_vars

SpecKb ==
    Init /\ [][NextKbService /\ UNCHANGED <<webchat_vars, pool_vars, ws_vars, webhook_vars, file_vars, retriever_vars, provider_vars, vector_vars, pipeline_vars, stage_vars, converter_vars, override_vars, validation_vars, storage_vars, named_vars>>]_vars

SpecRetriever ==
    Init /\ [][NextRetriever /\ UNCHANGED <<webchat_vars, pool_vars, ws_vars, webhook_vars, kb_vars,
                                             file_vars, service_vars, provider_vars, vector_vars, pipeline_vars, stage_vars, converter_vars, override_vars, validation_vars, storage_vars, named_vars>>]_vars

SpecRetrieverRepeating ==
    Init /\ [][NextRetrieverRepeating /\ UNCHANGED <<webchat_vars, pool_vars, ws_vars, webhook_vars,
                                                      kb_vars, file_vars, service_vars, provider_vars, vector_vars, pipeline_vars, stage_vars, converter_vars, override_vars, validation_vars, storage_vars, named_vars>>]_vars

SpecProviders ==
    Init /\ [][NextProviders /\ UNCHANGED <<webchat_vars, pool_vars, ws_vars, webhook_vars, kb_vars,
                                             file_vars, service_vars, retriever_vars, vector_vars, pipeline_vars, stage_vars, converter_vars, override_vars, validation_vars, storage_vars, named_vars>>]_vars

SpecVector ==
    Init /\ [][NextVector /\ UNCHANGED <<webchat_vars, pool_vars, ws_vars, webhook_vars, kb_vars,
                                          file_vars, service_vars, retriever_vars,
                                          provider_vars, pipeline_vars, stage_vars, converter_vars, override_vars, validation_vars, storage_vars, named_vars>>]_vars

SpecPipeline ==
    Init /\ [][NextPipeline /\ UNCHANGED <<webchat_vars, pool_vars, ws_vars, webhook_vars, kb_vars,
                                            file_vars, service_vars, retriever_vars,
                                            provider_vars, vector_vars, stage_vars, converter_vars, override_vars, validation_vars, storage_vars, named_vars>>]_vars

SpecStages ==
    Init /\ [][NextStages /\ UNCHANGED <<webchat_vars, pool_vars, ws_vars, webhook_vars, kb_vars,
                                          file_vars, service_vars, retriever_vars,
                                          provider_vars, vector_vars, pipeline_vars, converter_vars, override_vars, validation_vars, storage_vars, named_vars>>]_vars

SpecConverter ==
    Init /\ [][NextConverter /\ UNCHANGED <<webchat_vars, pool_vars, ws_vars, webhook_vars, kb_vars,
                                             file_vars, service_vars, retriever_vars,
                                             provider_vars, vector_vars, pipeline_vars,
                                             stage_vars, override_vars, validation_vars, storage_vars, named_vars>>]_vars

SpecOverride ==
    Init /\ [][NextOverride /\ UNCHANGED <<webchat_vars, pool_vars, ws_vars, webhook_vars, kb_vars,
            file_vars, service_vars, retriever_vars, provider_vars,
            vector_vars, pipeline_vars, stage_vars, converter_vars, validation_vars, storage_vars, named_vars>>]_vars

SpecValidation ==
    Init /\ [][NextValidation /\ UNCHANGED <<webchat_vars, pool_vars, ws_vars, webhook_vars, kb_vars,
            file_vars, service_vars, retriever_vars, provider_vars,
            vector_vars, pipeline_vars, stage_vars, converter_vars,
            override_vars, storage_vars, named_vars>>]_vars

\* The running call is scheduled until it returns.
FairSpecValidation ==
    SpecValidation /\ WF_validation_vars(ExtendSeed \/ SignToken)

SpecStorage ==
    Init /\ [][NextStorage /\ UNCHANGED <<webchat_vars, pool_vars, ws_vars, webhook_vars, kb_vars,
            file_vars, service_vars, retriever_vars, provider_vars,
            vector_vars, pipeline_vars, stage_vars, converter_vars,
            override_vars, validation_vars, named_vars>>]_vars

SpecNamed ==
    Init /\ [][NextNamed /\ UNCHANGED <<webchat_vars, pool_vars, ws_vars, webhook_vars, kb_vars,
            file_vars, service_vars, retriever_vars, provider_vars,
            vector_vars, pipeline_vars, stage_vars, converter_vars,
            override_vars, validation_vars, storage_vars>>]_vars

SpecFiles ==
    Init /\ [][NextFiles /\ UNCHANGED <<webchat_vars, pool_vars, ws_vars, webhook_vars, service_vars, retriever_vars, provider_vars, vector_vars, pipeline_vars, stage_vars, converter_vars, override_vars, validation_vars, storage_vars, named_vars>>]_vars

\* The event loop runs every ready task and callback, and the listener
\* finishes.
FairnessWebChat ==
    /\ \A c \in Calls : WF_webchat_vars(ListenerReturns(c) \/ ListenerRaises(c))
    /\ \A c \in Calls : WF_webchat_vars(RunFutureCallbacks(c))

FairSpecWebChat == SpecWebChat /\ FairnessWebChat

(***************************************************************************)
(* Claims on the WebChat reply bridge                                       *)
(***************************************************************************)
Pending(c) == calls[c].pc \in {"listener", "awaiting"}
Completed(c) == calls[c].pc \in {"done", "raised"}

\* C1: every send_debug_message call eventually completes, returning the
\* reply for its message or raising; it never stays pending forever.  Stated
\* for the calls to whose message the pipeline has sent a reply.
C1_EveryCallCompletes ==
    \A c \in Calls : (Pending(c) /\ replied[c] > 0) ~> Completed(c)

\* C2: no future leaks in the waiter map: a completed future is found in
\* resp_waiters only while its done-callback, which removes the entry, is
\* still waiting to be run by the event loop.
C2_NoLeakedFutures ==
    \A k \in DOMAIN resp_waiters :
        futures[resp_waiters[k]].state = "done" => resp_waiters[k] \in done_callbacks

\* a waiter was resolved, its callback ran, and the map no longer holds it
C2_Witness ==
    \E c \in Calls :
        /\ futures[c].state = "done"
        /\ c \notin done_callbacks
        /\ calls[c].pc = "done"
        /\ \A k \in DOMAIN resp_waiters : resp_waiters[k] # c

Pooled(c) == \E k \in DOMAIN connections : c \in DOMAIN connections[k]

\* C4: cleanup_stale_connections removes every stale connection from the
\* pool and closes its socket with close code 1000.
C4_StaleRemovedAndClosed ==
    \A c \in reaped :
        /\ ~Pooled(c)
        /\ sockets[c] = [state |-> "closed", code |-> 1000]

\* C5: broadcast_to_session counts failures without aborting: every
\* connection of the session gets its send whatever happens to the other
\* sends, the failed sends are counted, and the broadcast does not raise.
C5_BroadcastNeverAborts ==
    /\ last_broadcast.attempted = DOMAIN last_broadcast.results
    /\ ~last_broadcast.raised
    /\ last_broadcast.failed_count =
            Cardinality({c \in DOMAIN last_broadcast.results :
                            last_broadcast.results[c] = "error"})

\* a broadcast in which one send failed or was cancelled and a peer's send
\* went through
C5_Witness ==
    \E c, d \in DOMAIN last_broadcast.results :
        /\ last_broadcast.results[c] \in {"error", "cancelled"}
        /\ last_broadcast.results[d] = "ok"
        /\ d \in last_broadcast.attempted

\* C6 as stated: every read or mutation of the connection map made by
\* remove_connection and cleanup_stale_connections happens under the lock.
C6_AllAccessesLocked == \A a \in accesses : a.locked

\* C6 amended: remove_connection reads and mutates the connection map under
\* the lock, and cleanup_stale_connections mutates it under the lock (through
\* remove_connection); the reads cleanup makes on its own are not locked.
C6_MutationsLocked ==
    \A a \in accesses :
        (a.op = "remove_connection" \/ a.access = "write") => a.locked

\* a cleanup found a stale connection and removed it
C6_Witness ==
    /\ reaped # {}
    /\ \E a \in accesses : a.op = "cleanup_stale_connections" /\ a.access = "write"

\* the checks the handshake is to make on the first frame
Acceptable(m) ==
    /\ m.json = "object"
    /\ m.type = "connect"
    /\ m.data = "object"
    /\ m.session_type \in {"person", "group"}
    /\ m.token = "valid"

\* C7: a connection is pooled only after a first frame that is a connect
\* event with session_type person or group and an accepted token; a
\* connection whose first frame fails these checks is never pooled and is
\* closed with code 1008.
C7_PooledOnlyAfterHandshake ==
    \A c \in ConnIds :
        /\ Pooled(c) => Acceptable(handlers[c].first)
        /\ (handlers[c].first # NoMessage /\ ~Acceptable(handlers[c].first)) =>
                /\ ~Pooled(c)
                /\ sockets[c] = [state |-> "closed", code |-> 1008]

(***************************************************************************)
(* Claims on the webhook dispatcher                                         *)
(***************************************************************************)
\* C8: the dispatcher answers 404 for an unknown bot uuid, 403 for a bot
\* that exists but is disabled, and 501 for an enabled bot whose adapter has
\* no handle_unified_webhook, the checks being made in that order.
C8_StatusByCheckOrder ==
    webhook.lookup = "ok" =>
        /\ ~webhook.bot.present => webhook.status = 404
        /\ (webhook.bot.present /\ ~webhook.bot.enable) => webhook.status = 403
        /\ (webhook.bot.present /\ webhook.bot.enable /\ ~webhook.bot.unified) =>
                webhook.status = 501
        /\ (~webhook.bot.present \/ ~webhook.bot.enable \/ ~webhook.bot.unified) =>
                webhook.handler = "none"

\* a disabled bot whose adapter has no handler either was answered 403
C8_Witness ==
    /\ webhook.lookup = "ok"
    /\ webhook.bot.present /\ ~webhook.bot.enable /\ ~webhook.bot.unified
    /\ webhook.status = 403

\* C9: an exception raised by the bot lookup or by the adapter's handler is
\* answered with status 500 and the error string; it does not escape.
C9_ExceptionsAnswered500 ==
    (webhook.lookup \in Errors \/ webhook.handler \in Errors) =>
        /\ webhook.status = 500
        /\ webhook.body = (IF webhook.lookup \in Errors THEN webhook.lookup ELSE webhook.handler)
        /\ ~webhook.escaped

\* the adapter's handler raised and the request was answered 500
C9_Witness ==
    /\ webhook.handler = "handler failed"
    /\ webhook.status = 500

(***************************************************************************)
(* Claims on the knowledge-base manager                                     *)
(***************************************************************************)
\* C10: when the plugin's on_kb_create call fails, the creation is rolled
\* back: once create_knowledge_base has raised, neither the runtime map nor
\* the DB holds an entry for the new uuid.
C10_FailedCreateRolledBack ==
    \A u \in KbUuids :
        (creates[u].pc = "raised" /\ creates[u].failed_at = "on_kb_create") =>
            /\ u \notin knowledge_bases
            /\ u \notin kb_rows

\* a create whose plugin call failed has finished its rollback
C10_Witness ==
    \E u \in KbUuids :
        /\ creates[u].pc = "raised"
        /\ creates[u].failed_at = "on_kb_create"
        /\ creates[u].plugin_id = "engine"

\* C11: creating a knowledge base and then deleting it by its uuid leaves
\* neither a DB row nor a runtime map entry for that uuid.
C11_CreateThenDeleteLeavesNothing ==
    \A u \in KbUuids :
        (creates[u].pc = "done" /\ deletes[u].pc = "done") =>
            /\ u \notin kb_rows
            /\ u \notin knowledge_bases

\* a knowledge base of a plugin was created and then deleted
C11_Witness ==
    \E u \in KbUuids :
        /\ creates[u].pc = "done" /\ creates[u].plugin_id = "engine"
        /\ deletes[u].pc = "done"

\* C12: when a knowledge base is deleted, its DB row is deleted before the
\* plugin is notified through on_kb_delete: at the plugin call the row is gone.
C12_RowDeletedBeforeNotify ==
    \A u \in KbUuids : deletes[u].plugin_called => ~deletes[u].row_at_call

\* C13: a failure of the plugin's on_kb_delete call does not restore the
\* knowledge base and does not stop the delete: once the operation is over,
\* the KB is absent from the runtime map and from the DB.
C13_PluginFailureDoesNotRestore ==
    \A u \in KbUuids :
        (deletes[u].plugin_failed /\ deletes[u].pc \in {"done", "raised"}) =>
            /\ u \notin knowledge_bases
            /\ u \notin kb_rows

\* a delete finished although its plugin call had raised, and the plugin
\* still holds the knowledge base
C13_Witness ==
    \E u \in KbUuids :
        /\ deletes[u].plugin_failed
        /\ deletes[u].pc = "done"
        /\ u \in plugin_kbs

(***************************************************************************)
(* Claims on file ingestion                                                 *)
(***************************************************************************)
Lifecycle ==
    {<<"none", "pending">>, <<"pending", "processing">>,
     <<"processing", "completed">>, <<"processing", "failed">>}

IngestOver(u) ==
    /\ uploads[u].pc \in {"returned", "raised"}
    /\ \A k \in 0..MaxMembers : files[<<u, k>>].task \in {"none", "finished"}

\* C15: whether ingestion succeeds or fails, once the ingest operation on an
\* uploaded file is over, no blob of it is left in object storage.
C15_BlobDeletedAfterIngest ==
    \A u \in Uploads :
        IngestOver(u) => \A k \in 0..MaxMembers : <<u, k>> \notin blobs

\* C16: ingesting a ZIP archive that holds no supported member raises the
\* "No supported files" error and persists no File row.
C16_EmptyZipRaisesAndPersistsNothing ==
    \A u \in Uploads :
        (uploads[u].kind = "zip" /\ uploads[u].pc \in {"returned", "raised"}
            /\ ~uploads[u].supported) =>
            /\ uploads[u].pc = "raised"
            /\ uploads[u].error = "No supported files found in ZIP archive"
            /\ \A k \in 0..MaxMembers : files[<<u, k>>].task = "none"

\* an archive without a supported member was refused while the File row of
\* an earlier upload exists
C16_Witness ==
    \E u, v \in Uploads :
        /\ uploads[u].kind = "zip" /\ uploads[u].pc = "raised" /\ ~uploads[u].supported
        /\ files[<<v, 0>>].status # "none"

\* C17: no File row is pending from before the startup boundary: a pending
\* row belongs to the current process run.
C17_NoPendingOrphans ==
    \A b \in BlobNames : files[b].status = "pending" => files[b].epoch = epoch

\* C18: a file upload or file delete on a loaded knowledge base is rejected
\* exactly when the KB's plugin does not advertise doc_ingestion.
C18_RejectedIffNoDocIngestion ==
    file_request.kb = "RuntimeKnowledgeBase" =>
        ((file_request.outcome # "accepted") <=> ~file_request.doc_ingestion)

(***************************************************************************)
(* Claims on the Retriever                                                  *)
(***************************************************************************)
\* C19: every call Retriever.retrieve(q, k) returns a list of at most k
\* entries.
C19_AtMostTopK ==
    retrieval.pc = "returned" => Len(retrieval.result) <= retrieval.top_k

\* The RRF score of an id: the sum, over the providers that returned it, of
\* 1 / (60 + rank + 1) with the 0-based rank it has in that provider's list
\* (as a multiple of 1 / Scale).
RECURSIVE RrfScore(_, _, _)
RrfScore(lists, id, p) ==
    IF p = 0 THEN 0
    ELSE LET ranks == {i - 1 : i \in {j \in DOMAIN lists[p] : lists[p][j] = id}}
             term == IF ranks = {} THEN 0
                     ELSE Scale \div (60 + (CHOOSE r \in ranks : TRUE) + 1)
         IN  term + RrfScore(lists, id, p - 1)

\* C20: the list retrieve returns is ordered by non-increasing RRF score,
\* the score of an entry being the sum over the providers that returned it
\* of 1 / (60 + rank_in_provider + 1), rank counted from 0; the scores the
\* fusion computed are these scores.
C20_OrderedByRrfScore ==
    retrieval.pc = "returned" =>
        LET n == Len(retrieval.lists)
            result == retrieval.result
        IN  /\ \A id \in DOMAIN retrieval.fused_scores :
                  retrieval.fused_scores[id] = RrfScore(retrieval.lists, id, n)
            /\ \A i, j \in DOMAIN result :
                  i < j => RrfScore(retrieval.lists, result[i], n)
                              >= RrfScore(retrieval.lists, result[j], n)

\* Two providers answered, one id was returned by both at different ranks,
\* and the fused list holds entries of different scores.
C20_Witness ==
    /\ retrieval.pc = "returned"
    /\ Len(retrieval.lists) >= 2
    /\ \E id \in ChunkIds :
          /\ Cardinality(Hits(retrieval.lists, id)) >= 2
          /\ \E g, h \in Hits(retrieval.lists, id) : g[2] # h[2]
    /\ \E i, j \in DOMAIN retrieval.result :
          /\ i < j
          /\ retrieval.fused_scores[retrieval.result[i]]
                > retrieval.fused_scores[retrieval.result[j]]
    /\ retrieval.result[1] # retrieval.lists[1][1]

\* C21: the ids of the list retrieve returns are pairwise distinct, also when
\* an id is returned by several providers or several times by one provider.
C21_IdsDistinct ==
    retrieval.pc = "returned" =>
        \A i, j \in DOMAIN retrieval.result :
            retrieval.result[i] = retrieval.result[j] => i = j

\* One provider returned an id twice and a second provider returned it too.
C21_Witness ==
    /\ retrieval.pc = "returned"
    /\ Len(retrieval.result) >= 2
    /\ \E id \in ChunkIds, p, q \in DOMAIN retrieval.lists :
          /\ p # q
          /\ Cardinality({h \in Hits(retrieval.lists, id) : h[1] = p}) >= 2
          /\ \E h \in Hits(retrieval.lists, id) : h[1] = q

(***************************************************************************)
(* Claims on the retrieval providers                                        *)
(***************************************************************************)
\* C22: a provider checks the capabilities of its backend when it is
\* constructed and fails fast: no provider exists whose backend lacks the
\* capability the provider requires.
C22_ConstructionFailsFast ==
    \A p \in ProviderSlots :
        providers[p].pc = "constructed" =>
            RequiredCapability(providers[p].type) \in providers[p].capabilities

(***************************************************************************)
(* Claims on the vector database                                            *)
(***************************************************************************)
\* C23: deletion by filter is unsupported and raises: a delete request that
\* carries a filter (and no ids) ends in an error, never in a success.
C23_FilterDeleteRaises ==
    (last_op.op \in {"rag_vector_delete", "vector_delete"}
        /\ last_op.file_ids = {} /\ last_op.filters)
    => last_op.outcome \notin {"success", "returned"}

\* C24: when a batch of an add_embeddings call fails, then at the return of
\* the call none of the rows it inserted remain, or the error it raises
\* tells how many rows persisted.
C24_RolledBackOrCounted ==
    add_call.pc = "raised" =>
        add_call.persisted = 0 \/ add_call.error.persisted_count # "absent"

\* C25: after delete_by_file_id(name, f) has completed, a search of the
\* collection finds no entry whose metadata.file_id equals f.
C25_DeletedFileNotFound ==
    \A f \in last_op.deleted : SearchHits(collection, f) = 0

\* A delete that removed rows, while rows of another file stay.
C25_Witness ==
    /\ last_op.op = "delete_by_file_id"
    /\ last_op.removed
    /\ \E f \in StoredFileIds : collection[f] > BatchSize

(***************************************************************************)
(* Claims on the pipeline runtime                                           *)
(***************************************************************************)
\* C26: within one query the stages run one after the other in list order,
\* and once a stage has returned INTERRUPT no later processing stage of the
\* run is executed.
C26_SequentialAndInterruptStops ==
    \A q \in QueryIds :
        LET executed == queries[q].executed
            at == queries[q].interrupted_at
        IN  /\ \A k \in DOMAIN executed : k > 1 => executed[k] > executed[k - 1]
            /\ \A k \in DOMAIN executed :
                  (at = 0 \/ executed[k] <= at) =>
                      (executed[k] = k \/ StageKind(executed[k]) = "reply")
            /\ \A k \in DOMAIN executed :
                  (at # 0 /\ executed[k] > at) => StageKind(executed[k]) = "reply"

\* A run that a processing stage interrupted with a notice: the reply stage
\* ran, the processing stages in between did not.
C26_Witness ==
    \E q \in QueryIds :
        /\ queries[q].pc = "done"
        /\ queries[q].interrupted_at = 1
        /\ queries[q].executed = <<1, ReplyStage>>

Running == {q \in QueryIds : queries[q].pc = "running"}

\* C27: the number of pipelines running at once never exceeds
\* concurrency.pipeline: every running query holds one slot of the semaphore
\* from its acquisition until its last stage completes or its run ends in
\* error, when the slot is given back.
C27_AtMostConcurrencyPipeline ==
    /\ Cardinality(Running) <= ConcurrencyPipeline
    /\ semaphore = ConcurrencyPipeline - Cardinality(Running)

\* The semaphore is saturated: a query waits while the slots are taken.
C27_Witness ==
    /\ semaphore = 0
    /\ \E q \in QueryIds : queries[q].pc = "waiting"
    /\ Cardinality(Running) = ConcurrencyPipeline

(***************************************************************************)
(* Claims on the pipeline stages                                            *)
(***************************************************************************)
\* C28: BanSessionCheckStage returns CONTINUE in whitelist mode exactly when
\* the query's (launcher_type, launcher_id) matches a spec of the whitelist,
\* in blacklist mode exactly when it matches no spec of the blacklist, and
\* INTERRUPT in every other case; a spec "<type>_*" matches every session of
\* the type.
C28_BanSessionByMode ==
    stage_call.inst_name = "BanSessionCheckStage" =>
        LET t == stage_call.launcher_type
            id == stage_call.launcher_id
            listed(l) == <<t, id>> \in l \/ <<t, "*">> \in l
            allowed == \/ stage_call.mode = "whitelist" /\ listed(stage_call.whitelist)
                       \/ stage_call.mode = "blacklist" /\ ~listed(stage_call.blacklist)
        IN  /\ stage_call.result.result_type \in {"CONTINUE", "INTERRUPT"}
            /\ stage_call.result.result_type = "CONTINUE" <=> allowed

\* A group session let through by the wildcard of its type alone, the
\* whitelist naming no group literally.
C28_Witness ==
    /\ stage_call.inst_name = "BanSessionCheckStage"
    /\ stage_call.mode = "whitelist"
    /\ stage_call.launcher_type = "group"
    /\ stage_call.whitelist = {<<"group", "*">>, <<"person", "12345">>}
    /\ stage_call.result.result_type = "CONTINUE"

\* C29: a RequireRateLimitOccupancy invocation returns CONTINUE exactly when
\* require_access grants the session access; a deny returns INTERRUPT with
\* the fixed notice.
C29_RateLimitGrantOrNotice ==
    stage_call.inst_name = "RequireRateLimitOccupancy" =>
        /\ stage_call.result.result_type = "CONTINUE" <=> stage_call.granted
        /\ ~stage_call.granted =>
              /\ stage_call.result.result_type = "INTERRUPT"
              /\ stage_call.result.user_notice =
                    "\\u8bf7\\u6c42\\u6570\\u8d85\\u8fc7\\u9650\\u901f\\u5668\\u8bbe\\u5b9a\\u503c,\\u5df2\\u4e22\\u5f03\\u672c\\u6d88\\u606f\\u3002"

C29_Witness ==
    /\ stage_call.inst_name = "RequireRateLimitOccupancy"
    /\ ~stage_call.granted
    /\ stage_call.result.result_type = "INTERRUPT"

(***************************************************************************)
(* Claims on the converters                                                 *)
(***************************************************************************)
\* C30: in every message chain a converter hands to the pipeline, a Source
\* component, when present, is the first element of the chain.
C30_SourceFirst ==
    LET chain == conversion.result.chain
    IN  \A i \in DOMAIN chain : chain[i] = "Source" => i = 1

(***************************************************************************)
(* Claims on the environment-variable overrides                             *)
(***************************************************************************)
\* C31: applying the overrides a second time, the environment unchanged,
\* yields the same configuration as applying them once.
C31_OverridesIdempotent ==
    override.pc = "reapplied" => override.twice = override.once

\* The variables of the environment that address the path: uppercase names
\* containing "__" whose lowercased segments are the path.
Addressing(env, path) ==
    {i \in DOMAIN env :
        /\ \A k \in DOMAIN env[i].key : env[i].key[k] \in {"A", "B", "C"}
        /\ Len(env[i].key) >= 2
        /\ [k \in DOMAIN env[i].key |-> Lower(env[i].key[k])] = path}

\* C32: the overrides change only existing leaves that hold neither a dict nor
\* a list and are addressed by an uppercase variable containing "__"; no key
\* is created or removed and every other entry keeps its value.
C32_OnlyAddressedScalarsChange ==
    override.pc # "idle" =>
        /\ DOMAIN override.once = DOMAIN override.cfg
        /\ \A path \in DOMAIN override.cfg :
              override.once[path] # override.cfg[path] =>
                  /\ override.cfg[path].tag \notin {"dict", "list"}
                  /\ override.once[path].tag \notin {"dict", "list"}
                  /\ Addressing(override.env, path) # {}

C32_Witness ==
    /\ override.pc = "applied"
    /\ Len(override.env) = 2
    /\ override.env[1].key = <<"A", "B">>
    /\ override.env[2].key = <<"A", "C">>
    /\ override.once[<<"a", "c">>] # override.cfg[<<"a", "c">>]
    /\ override.once[<<"a", "b">>] = override.cfg[<<"a", "b">>]

(***************************************************************************)
(* Claims on the isolation of sessions                                      *)
(***************************************************************************)
\* C33: a broadcast to (pipeline_uuid, session_type) is sent only to
\* connections registered under exactly that pipeline_uuid and session_type.
C33_BroadcastStaysInSession ==
    [][last_broadcast' # last_broadcast =>
          \A c \in last_broadcast'.attempted :
              \E k \in DOMAIN connections :
                  /\ c \in DOMAIN connections[k]
                  /\ connections[k][c].pipeline_uuid = last_broadcast'.pipeline_uuid
                  /\ connections[k][c].session_type = last_broadcast'.session_type]_vars

\* A broadcast reached a connection while another session held a connection too.
C33_Witness ==
    /\ last_broadcast.attempted # {}
    /\ \E k \in DOMAIN connections : k # last_broadcast.session
    /\ last_broadcast.session \in DOMAIN connections

(***************************************************************************)
(* Claims on the waiters and the histories of the WebChat adapter           *)
(***************************************************************************)
\* C34: no two in-flight send_debug_message calls share a resp_waiters key,
\* and a call is completed only by the reply to its own message.
C34_WaiterKeysDistinct ==
    /\ \A c, d \in Calls :
          (c # d /\ Pending(c) /\ Pending(d)) => calls[c].message_id # calls[d].message_id
    /\ \A c \in Calls : calls[c].pc = "done" => calls[c].result.content = c

\* C35: whenever reply_message runs for a debug message, the waiter of that
\* message is already registered under its message_id.
C35_WaiterRegisteredBeforeReply ==
    [][\A c \in Calls :
          replied'[c] > replied[c] =>
              /\ calls[c].message_id \in DOMAIN resp_waiters
              /\ resp_waiters[calls[c].message_id] = c]_vars

\* C36: a bot reply is appended to the history of the session its debug
\* message was sent in, never to the history of the other session.
C36_ReplyInOwnHistory ==
    \A k \in SessionKeys :
        \A i \in DOMAIN debug_messages[k] :
            debug_messages[k][i].type = "bot" =>
                SessionKey(calls[debug_messages[k][i].content].session_type) = k

(***************************************************************************)
(* Claims on the clean-up of the connection handler                         *)
(***************************************************************************)
\* C37: a connection the handler added to the pool is out of the pool once
\* the handler has exited, whatever ended it, and the pool holds no session
\* key with an empty set of connections.
C37_RemovedOnExitNoEmptySession ==
    /\ \A c \in ConnIds : handlers[c].pc = "exited" => ~Pooled(c)
    /\ \A k \in DOMAIN connections : DOMAIN connections[k] # {}

\* A handler that had pooled its connection has exited while another
\* connection of the same session stays pooled, and a third session emptied.
C37_Witness ==
    \E c, d \in ConnIds :
        /\ c # d
        /\ handlers[c].pc = "exited" /\ Acceptable(handlers[c].first)
        /\ handlers[d].pc = "exited" /\ Acceptable(handlers[d].first)
        /\ PoolKey(handlers[c].pipeline_uuid, handlers[c].first.session_type)
             # PoolKey(handlers[d].pipeline_uuid, handlers[d].first.session_type)
        /\ connections = << >>

(***************************************************************************)
(* Claims on the callback validation                                        *)
(***************************************************************************)
\* C38: handle_validation terminates for every bot_secret, the empty one
\* included: the loop extending the seed finishes and the function returns a
\* {plain_token, signature} response or None.
C38_ValidationTerminates ==
    (validation_call.pc = "loop") ~>
        (validation_call.pc = "returned" /\ validation_call.result \in {"response", "None"})

(***************************************************************************)
(* Claims on the binary storage                                             *)
(***************************************************************************)
\* C39: after any interleaving of set_binary_storage calls for one triple,
\* every call reports success and exactly one row of the triple exists,
\* holding the value of one of the calls.
C39_OneRowPerTriple ==
    \A w \in Writers :
        writers[w].pc = "done" =>
            /\ writers[w].outcome = "success"
            /\ Len(binary_storage[writers[w].storage_key]) = 1
            /\ binary_storage[writers[w].storage_key][1] \in Writers

(***************************************************************************)
(* Claims on the sanitized collection names                                 *)
(***************************************************************************)
\* C40: two distinct logical collection names never resolve to the same
\* stored collection: a stored collection holds the rows of one logical name,
\* and an operation on a name reads or deletes rows of that name only.
C40_NamesNeverMerge ==
    /\ \A safe_collection \in DOMAIN seekdb_collections :
          \A r, q \in seekdb_collections[safe_collection] : r.collection = q.collection
    /\ \A row \in named_op.touched : row.collection = named_op.collection

====
